---- MODULE Spec2Model ----
(***************************************************************************)
(* Model of the URL monitoring service: the MonitoringScheduler of         *)
(* app/scheduler.py driving probe rounds of app/ping_service.py that write *)
(* to the ping_results table of app/database.py.                           *)
(*                                                                         *)
(* The scheduler object wraps an APScheduler BackgroundScheduler.  The     *)
(* library is modelled by the behaviour of the calls the code makes:       *)
(*   add_job(replace_existing=True)  queues the job while the scheduler is *)
(*       stopped, otherwise adds it to the job store, replacing a job of   *)
(*       the same id;                                                      *)
(*   start()     raises SchedulerAlreadyRunningError unless stopped, else  *)
(*       moves the queued jobs into the job store and starts the timer;    *)
(*   shutdown()  raises SchedulerNotRunningError when stopped, else sets   *)
(*       the state to stopped, shuts the executor pool down (waiting for   *)
(*       running jobs when wait=True) and empties the in-memory job store; *)
(*   pause()/resume()  raise SchedulerNotRunningError when stopped, else   *)
(*       switch between running and paused;                                *)
(*   remove_job(id)  raises JobLookupError when no such job is visible;    *)
(*   a due job is submitted to the executor only while the scheduler is    *)
(*       running; the executor refuses it (the run is skipped and the job  *)
(*       rescheduled) when max_instances runs of the job are executing.    *)
(***************************************************************************)
EXTENDS Integers, Sequences, FiniteSets, TLC

\* ------------------------------------------------------------------ bounds
\* Rounds that may be started in one behaviour.
MaxRounds == 2

\* ------------------------------------------------------- program constants
STATE_STOPPED == 0
STATE_RUNNING == 1
STATE_PAUSED == 2
\* A scheduler configured to let two runs of the job overlap.
max_instances_two == 1 + 1
\* job_defaults['max_instances']
max_instances == 1

\* Threads calling into the scheduler (web handlers, the main thread) and the
\* threads of the scheduler's executor pool that run the timer job.
Callers == {"c1", "c2"}
PoolThreads == <<"p1", "p2">>
Pool == {PoolThreads[i] : i \in 1..Len(PoolThreads)}
Threads == Callers \cup Pool

\* Interval arguments (minutes) the callers pass.
Intervals == {30, 60}

JOB_ID == "url_ping_job"

NoError == "none"
SchedulerAlreadyRunningError == "SchedulerAlreadyRunningError"
SchedulerNotRunningError == "SchedulerNotRunningError"
JobLookupError == "JobLookupError"

\* The ids of the rows of the urls table.
RegisteredUrls == {1, 2}

\* What the HTTP GET of ping_url meets at each registered url: a status
\* code, or the exception class that is raised.
transport(u) == IF u = 1 THEN "200" ELSE "Timeout"

\* SQL NULL and Python None; a present value v is the one-element tuple <<v>>.
Null == <<>>

\* The urls table: id, url, group_name and the optional country_code.  The
\* rows stand in the order of ORDER BY group_name, country_code, url (NULL
\* sorts first).
urls ==
  << [id |-> 1, url |-> "a", group_name |-> "g1", country_code |-> Null],
     [id |-> 2, url |-> "b", group_name |-> "g1", country_code |-> <<"US">>],
     [id |-> 3, url |-> "c", group_name |-> "g2", country_code |-> <<"US">>] >>

VARIABLES
  state,          \* scheduler.state
  pending_jobs,   \* scheduler._pending_jobs: jobs added while stopped
  jobstore,       \* the jobs of the default (memory) job store
  instances,      \* executor._instances['url_ping_job']
  pool_alive,     \* FALSE once the executor's thread pool was shut down
  exiting,        \* TRUE once the interpreter runs its exit handlers
  pc,             \* pc[t]: where thread t stands in the code
  call,           \* call[t]: the scheduler method thread t is executing
  raised,         \* raised[t]: the exception leaving thread t's call
  round,          \* round[t]: the round thread t is executing
  ping_results,   \* the ping_results table, in id order
  urls_table,     \* the urls table, in id order
  scheduler_instance,  \* the global _scheduler_instance: 0 for None
  schedulers      \* the MonitoringScheduler objects constructed so far

vars == <<state, pending_jobs, jobstore, instances, pool_alive, exiting,
          pc, call, raised, round, ping_results, urls_table,
          scheduler_instance, schedulers>>

singleton == <<scheduler_instance, schedulers>>

sched == <<state, pending_jobs, jobstore, instances, pool_alive, exiting>>

NoCall == [name |-> "none", minutes |-> 0, from |-> STATE_STOPPED,
           alone |-> FALSE, jobs |-> 0, during_update |-> FALSE]
NoRound == [todo |-> {}, base |-> 0, refused |-> FALSE]

Job(minutes) == [id |-> JOB_ID, minutes |-> minutes]

\* A trigger that ignores the interval it is given.
IntervalTrigger_default(minutes) == 30
\* IntervalTrigger(minutes=interval_minutes): the period of the job.
IntervalTrigger(minutes) == minutes

Init ==
  /\ state = STATE_STOPPED
  /\ pending_jobs = <<>>
  /\ jobstore = <<>>
  /\ instances = 0
  /\ pool_alive = TRUE
  /\ exiting = FALSE
  /\ pc = [t \in Threads |-> "idle"]
  /\ call = [t \in Threads |-> NoCall]
  /\ raised = [t \in Threads |-> NoError]
  /\ round = [t \in Threads |-> NoRound]
  /\ ping_results = <<>>
  /\ urls_table = urls
  /\ scheduler_instance = 0
  /\ schedulers = 0

\* ------------------------------------------------- the scheduler's job lists
HasJob(jobs, id) == \E i \in 1..Len(jobs) : jobs[i].id = id

\* A job store that adds the job without looking for one of the same id.
real_add_job_append(jobs, job) == Append(jobs, job)
\* Job store add_job under replace_existing=True: a job of the same id is
\* updated in place, otherwise the job is added.
real_add_job(jobs, job) ==
  IF HasJob(jobs, job.id)
    THEN [i \in 1..Len(jobs) |-> IF jobs[i].id = job.id THEN job ELSE jobs[i]]
    ELSE Append(jobs, job)

\* scheduler.start() adds every queued job to the store, in queue order.
RECURSIVE add_pending(_, _)
add_pending(jobs, queue) ==
  IF queue = <<>> THEN jobs
  ELSE add_pending(real_add_job(jobs, Head(queue)), Tail(queue))

\* scheduler.get_jobs(): the queued jobs while stopped, else the stored ones.
get_jobs == IF state = STATE_STOPPED THEN pending_jobs ELSE jobstore

\* The list without its first job of the given id.
RECURSIVE without_job(_, _)
without_job(jobs, id) ==
  IF jobs = <<>> THEN <<>>
  ELSE IF Head(jobs).id = id THEN Tail(jobs)
  ELSE <<Head(jobs)>> \o without_job(Tail(jobs), id)

\* scheduler.add_job(func=run_ping_round, trigger=IntervalTrigger(minutes),
\* id='url_ping_job', replace_existing=True)
add_job(minutes) ==
  IF state = STATE_STOPPED
    THEN /\ pending_jobs' = Append(pending_jobs, Job(IntervalTrigger(minutes)))
         /\ jobstore' = jobstore
    ELSE /\ jobstore' = real_add_job(jobstore, Job(IntervalTrigger(minutes)))
         /\ pending_jobs' = pending_jobs

\* scheduler.remove_job('url_ping_job'), when the job is visible.
remove_job ==
  IF state = STATE_STOPPED
    THEN /\ pending_jobs' = without_job(pending_jobs, JOB_ID)
         /\ jobstore' = jobstore
    ELSE /\ jobstore' = without_job(jobstore, JOB_ID)
         /\ pending_jobs' = pending_jobs

\* A test that takes only the running state, not the paused one.
running_only == state = STATE_RUNNING
\* scheduler.running
running == state # STATE_STOPPED

\* ------------------------------------------------------------------ rounds
InRound(t) == pc[t] \in {"rp_list", "rp_probe", "rp_except"}
RoundsInFlight == Cardinality({t \in Threads : InRound(t)})

\* Rounds begun or about to begin; the model starts no round beyond MaxRounds
\* rounds' worth of rows.
Committed == Cardinality({t \in Threads : InRound(t) \/ pc[t] = "sm_start"})
RoundBudget ==
  Len(ping_results) + (Committed + 1) * Cardinality(RegisteredUrls)
    <= MaxRounds * Cardinality(RegisteredUrls)

\* A round as it begins: base is the size of the log at that moment, so the
\* rows of the round's period are those after base.
NewRound == [todo |-> {}, base |-> Len(ping_results), refused |-> FALSE]

\* Thread t enters a scheduler method.  from notes the state that
\* start_monitoring was called in; alone tells that no call of another thread
\* has overlapped this one so far.
Entered(t, rec) ==
  call' = [d \in Threads |->
             IF d = t THEN rec
             ELSE IF pc[d] = "idle" THEN call[d]
             ELSE [call[d] EXCEPT !.alone = FALSE]]

Enter(t, name, minutes) ==
  Entered(t, [name |-> name, minutes |-> minutes,
              from |-> IF name = "start_monitoring" THEN state
                       ELSE STATE_STOPPED,
              alone |-> \A d \in Callers \ {t} : pc[d] = "idle",
              jobs |-> 0, during_update |-> FALSE])

\* The thread's call returns to its caller.
Return(t) ==
  /\ pc' = [pc EXCEPT ![t] = "idle"]
  /\ call' = [call EXCEPT ![t] = NoCall]

\* The thread's call raises e.
Raise(t, e) ==
  /\ pc' = [pc EXCEPT ![t] = "raised"]
  /\ raised' = [raised EXCEPT ![t] = e]

\* The row add_ping_result inserts for one probe outcome.
Row(u, o) ==
  [url_id |-> u,
   status_code |-> IF o = "Timeout" THEN "NULL" ELSE o,
   error_message |-> IF o = "Timeout" THEN "Request timeout" ELSE "NULL"]

\* A run_ping_round without its try block: the exception leaves it.
run_ping_round_reraise(e) == e
\* run_ping_round, lines 63 and 80-81: the exception that leaves
\* run_ping_round when e was raised inside its try block.
run_ping_round_except(e) == NoError

\* run_ping_round is over in thread t, with exception e or none: a pool
\* thread ends its run of the job (the executor logs an exception of the
\* job), a caller's call returns or raises.
EndRound(t, e) ==
  /\ round' = [round EXCEPT ![t] = NoRound]
  /\ instances' = IF t \in Pool THEN instances - 1 ELSE instances
  /\ IF t \in Pool \/ e = NoError
       THEN Return(t) /\ raised' = raised
       ELSE Raise(t, e) /\ call' = call

\* run_ping_round, line 67: ping_all_urls reads the target list at line
\* 140.  The read may fail (store unavailable), which raises inside the try
\* block of run_ping_round.
run_ping_round_list(t) ==
  /\ pc[t] = "rp_list"
  /\ \E ok \in BOOLEAN :
       IF ok
         THEN /\ round' = [round EXCEPT ![t].todo = RegisteredUrls]
              /\ pc' = [pc EXCEPT ![t] = "rp_probe"]
         ELSE /\ pc' = [pc EXCEPT ![t] = "rp_except"]
              /\ round' = round
  /\ UNCHANGED <<sched, call, raised, ping_results>>
  /\ UNCHANGED urls_table
  /\ UNCHANGED singleton

\* run_ping_round, lines 80-81: the error of the round is handled.
run_ping_round_error(t) ==
  /\ pc[t] = "rp_except"
  /\ EndRound(t, run_ping_round_except("StoreUnavailable"))
  /\ UNCHANGED <<state, pending_jobs, jobstore, pool_alive, exiting,
                 ping_results>>
  /\ UNCHANGED urls_table
  /\ UNCHANGED singleton

\* One probe of the round completes: ping_url classifies the outcome and
\* add_ping_result writes its row.
run_ping_round_probe(t) ==
  /\ pc[t] = "rp_probe"
  /\ \E u \in round[t].todo :
       /\ ping_results' = Append(ping_results, Row(u, transport(u)))
       /\ round' = [round EXCEPT ![t].todo = @ \ {u}]
  /\ UNCHANGED <<sched, pc, call, raised>>
  /\ UNCHANGED urls_table
  /\ UNCHANGED singleton

\* All probes are back: the summary is logged and run_ping_round returns.
run_ping_round_summary(t) ==
  /\ pc[t] = "rp_probe"
  /\ round[t].todo = {}
  /\ EndRound(t, NoError)
  /\ UNCHANGED <<state, pending_jobs, jobstore, pool_alive, exiting,
                 ping_results>>
  /\ UNCHANGED urls_table
  /\ UNCHANGED singleton

\* --------------------------------------------------------- the timer thread
\* A timer that keeps firing while the scheduler is paused.
timer_active_unless_stopped == state # STATE_STOPPED
\* The scheduler processes due jobs only while it is running: pause() and
\* shutdown() suppress the ticks.
timer_active == state = STATE_RUNNING

\* The timer fires for the job: the run is submitted to the executor, which
\* hands it to an idle pool thread.
timer_tick_run ==
  /\ timer_active
  /\ HasJob(jobstore, JOB_ID)
  /\ pool_alive
  /\ instances < max_instances
  /\ RoundBudget
  /\ \E i \in 1..Len(PoolThreads) :
       /\ pc[PoolThreads[i]] = "idle"
       /\ \A j \in 1..(i - 1) : pc[PoolThreads[j]] # "idle"
       /\ pc' = [pc EXCEPT ![PoolThreads[i]] = "rp_list"]
       /\ round' = [round EXCEPT ![PoolThreads[i]] = NewRound]
  /\ instances' = instances + 1
  /\ UNCHANGED <<state, pending_jobs, jobstore, pool_alive, exiting, call,
                 raised, ping_results>>
  /\ UNCHANGED urls_table
  /\ UNCHANGED singleton

\* The timer fires but the executor refuses the run: max_instances runs of
\* the job are executing, or the pool was shut down.  The refusal is logged
\* and the job is rescheduled for its next fire time; refused notes on the
\* executing run that a tick was refused during it.
timer_tick_skip ==
  /\ timer_active
  /\ HasJob(jobstore, JOB_ID)
  /\ (instances >= max_instances \/ ~pool_alive)
  /\ round' = [t \in Threads |->
                 IF t \in Pool /\ InRound(t)
                   THEN [round[t] EXCEPT !.refused = TRUE]
                   ELSE round[t]]
  /\ UNCHANGED <<sched, pc, call, raised, ping_results>>
  /\ UNCHANGED urls_table
  /\ UNCHANGED singleton

\* ------------------------------------------------------ the control calls
\* The exception of a call reaches the code that made the call.
propagate(c) ==
  /\ pc[c] = "raised"
  /\ Return(c)
  /\ raised' = [raised EXCEPT ![c] = NoError]
  /\ UNCHANGED <<sched, round, ping_results>>
  /\ UNCHANGED urls_table
  /\ UNCHANGED singleton

\* start_monitoring, lines 46-52: add the ping job.
start_monitoring_add_job(c, minutes) ==
  /\ pc[c] = "idle"
  /\ ~exiting
  /\ RoundBudget
  /\ Enter(c, "start_monitoring", minutes)
  /\ add_job(minutes)
  /\ pc' = [pc EXCEPT ![c] = "sm_start"]
  /\ UNCHANGED <<state, instances, pool_alive, exiting, raised, round,
                 ping_results>>
  /\ UNCHANGED urls_table
  /\ UNCHANGED singleton

\* start_monitoring, lines 55-59: scheduler.start(), then the initial round
\* begins in the calling thread.
start_monitoring_start(c) ==
  /\ pc[c] = "sm_start"
  /\ IF state # STATE_STOPPED
       THEN /\ Raise(c, SchedulerAlreadyRunningError)
            /\ UNCHANGED <<state, pending_jobs, jobstore, round>>
       ELSE /\ state' = STATE_RUNNING
            /\ jobstore' = add_pending(jobstore, pending_jobs)
            /\ pending_jobs' = <<>>
            /\ pc' = [pc EXCEPT ![c] = "rp_list"]
            /\ round' = [round EXCEPT ![c] = NewRound]
            /\ raised' = raised
  /\ UNCHANGED <<instances, pool_alive, exiting, call, ping_results>>
  /\ UNCHANGED urls_table
  /\ UNCHANGED singleton

\* run_manual_ping, lines 115-116: the round begins in the calling thread.
run_manual_ping(c) ==
  /\ pc[c] = "idle"
  /\ ~exiting
  /\ RoundBudget
  /\ Enter(c, "run_manual_ping", 0)
  /\ pc' = [pc EXCEPT ![c] = "rp_list"]
  /\ round' = [round EXCEPT ![c] = NewRound]
  /\ UNCHANGED <<sched, raised, ping_results>>
  /\ UNCHANGED urls_table
  /\ UNCHANGED singleton

\* stop_monitoring, line 85: the test of scheduler.running.
stop_monitoring(c) ==
  /\ pc[c] = "idle"
  /\ ~exiting
  /\ running
  /\ Enter(c, "stop_monitoring", 0)
  /\ pc' = [pc EXCEPT ![c] = "stop_shutdown"]
  /\ UNCHANGED <<sched, raised, round, ping_results>>
  /\ UNCHANGED urls_table
  /\ UNCHANGED singleton

\* stop_monitoring, line 86: scheduler.shutdown() (wait=True) marks the
\* scheduler stopped and closes the executor pool to new runs...
stop_monitoring_shutdown(c) ==
  /\ pc[c] = "stop_shutdown"
  /\ IF state = STATE_STOPPED
       THEN /\ Raise(c, SchedulerNotRunningError)
            /\ UNCHANGED <<state, pool_alive>>
       ELSE /\ state' = STATE_STOPPED
            /\ pool_alive' = FALSE
            /\ pc' = [pc EXCEPT ![c] = "stop_wait"]
            /\ raised' = raised
  /\ UNCHANGED <<pending_jobs, jobstore, instances, exiting, call, round,
                 ping_results>>
  /\ UNCHANGED urls_table
  /\ UNCHANGED singleton

\* ...then waits for the runs executing in the pool, and empties the job
\* store.
stop_monitoring_wait(c) ==
  /\ pc[c] = "stop_wait"
  /\ \A p \in Pool : pc[p] = "idle"
  /\ jobstore' = <<>>
  /\ Return(c)
  /\ UNCHANGED <<state, pending_jobs, instances, pool_alive, exiting,
                 raised, round, ping_results>>
  /\ UNCHANGED urls_table
  /\ UNCHANGED singleton

\* shutdown, line 159, registered with atexit at line 36: the interpreter
\* exits and the handler tests scheduler.running.
shutdown(c) ==
  /\ pc[c] = "idle"
  /\ ~exiting
  /\ exiting' = TRUE
  /\ Enter(c, "shutdown", 0)
  /\ pc' = [pc EXCEPT ![c] = IF running THEN "sd_shutdown" ELSE "no_op"]
  /\ UNCHANGED <<state, pending_jobs, jobstore, instances, pool_alive,
                 raised, round, ping_results>>
  /\ UNCHANGED urls_table
  /\ UNCHANGED singleton

\* shutdown, lines 160-163: scheduler.shutdown(wait=False) does not wait for
\* the runs in the pool; an exception it raises is caught and logged.
shutdown_shutdown(c) ==
  /\ pc[c] = "sd_shutdown"
  /\ IF state = STATE_STOPPED
       THEN UNCHANGED <<state, pool_alive, jobstore>>
       ELSE /\ state' = STATE_STOPPED
            /\ pool_alive' = FALSE
            /\ jobstore' = <<>>
  /\ Return(c)
  /\ UNCHANGED <<pending_jobs, instances, exiting, raised, round,
                 ping_results>>
  /\ UNCHANGED urls_table
  /\ UNCHANGED singleton

\* pause_monitoring, line 91: the test of scheduler.running.
pause_monitoring(c) ==
  /\ pc[c] = "idle"
  /\ ~exiting
  /\ running
  /\ Enter(c, "pause_monitoring", 0)
  /\ pc' = [pc EXCEPT ![c] = "pause_pause"]
  /\ UNCHANGED <<sched, raised, round, ping_results>>
  /\ UNCHANGED urls_table
  /\ UNCHANGED singleton

\* pause_monitoring, line 92: scheduler.pause().
pause_monitoring_pause(c) ==
  /\ pc[c] = "pause_pause"
  /\ IF state = STATE_STOPPED
       THEN /\ Raise(c, SchedulerNotRunningError)
            /\ UNCHANGED <<state, call>>
       ELSE /\ state' = STATE_PAUSED
            /\ Return(c)
            /\ raised' = raised
  /\ UNCHANGED <<pending_jobs, jobstore, instances, pool_alive, exiting,
                 round, ping_results>>
  /\ UNCHANGED urls_table
  /\ UNCHANGED singleton

\* resume_monitoring, line 97: the test of scheduler.state == 2.
resume_monitoring(c) ==
  /\ pc[c] = "idle"
  /\ ~exiting
  /\ state = STATE_PAUSED
  /\ Enter(c, "resume_monitoring", 0)
  /\ pc' = [pc EXCEPT ![c] = "resume_resume"]
  /\ UNCHANGED <<sched, raised, round, ping_results>>
  /\ UNCHANGED urls_table
  /\ UNCHANGED singleton

\* resume_monitoring, line 98: scheduler.resume().
resume_monitoring_resume(c) ==
  /\ pc[c] = "resume_resume"
  /\ IF state = STATE_STOPPED
       THEN /\ Raise(c, SchedulerNotRunningError)
            /\ UNCHANGED <<state, call>>
       ELSE /\ state' = STATE_RUNNING
            /\ Return(c)
            /\ raised' = raised
  /\ UNCHANGED <<pending_jobs, jobstore, instances, pool_alive, exiting,
                 round, ping_results>>
  /\ UNCHANGED urls_table
  /\ UNCHANGED singleton

\* Control calls without their tests: shutdown() and pause() of a stopped
\* scheduler raise.
control_call_unguarded(c, name) ==
  /\ pc[c] = "idle"
  /\ ~exiting
  /\ \/ name \in {"stop_monitoring", "pause_monitoring"} /\ ~running
     \/ name = "resume_monitoring" /\ state # STATE_PAUSED
  /\ Enter(c, name, 0)
  /\ IF state = STATE_STOPPED
       THEN Raise(c, SchedulerNotRunningError)
       ELSE pc' = [pc EXCEPT ![c] = "no_op"] /\ raised' = raised
  /\ UNCHANGED <<sched, round, ping_results>>
  /\ UNCHANGED urls_table
  /\ UNCHANGED singleton
\* A control call made where its test fails (stop_monitoring or
\* pause_monitoring when not running, resume_monitoring when not paused)
\* returns at once.
control_call_no_op(c, name) ==
  /\ pc[c] = "idle"
  /\ ~exiting
  /\ \/ name \in {"stop_monitoring", "pause_monitoring"} /\ ~running
     \/ name = "resume_monitoring" /\ state # STATE_PAUSED
  /\ Enter(c, name, 0)
  /\ pc' = [pc EXCEPT ![c] = "no_op"]
  /\ UNCHANGED <<sched, raised, round, ping_results>>
  /\ UNCHANGED urls_table
  /\ UNCHANGED singleton

control_call_no_op_return(c) ==
  /\ pc[c] = "no_op"
  /\ Return(c)
  /\ UNCHANGED <<sched, raised, round, ping_results>>
  /\ UNCHANGED urls_table
  /\ UNCHANGED singleton

\* An update_interval that goes on to add the job when there is none to
\* remove.
update_interval_remove_job_lenient(c, minutes) ==
  /\ pc[c] = "idle"
  /\ ~exiting
  /\ Enter(c, "update_interval", minutes)
  /\ IF HasJob(get_jobs, JOB_ID)
       THEN remove_job
       ELSE UNCHANGED <<pending_jobs, jobstore>>
  /\ pc' = [pc EXCEPT ![c] = "ui_add_job"]
  /\ raised' = raised
  /\ UNCHANGED <<state, instances, pool_alive, exiting, round,
                 ping_results>>
  /\ UNCHANGED urls_table
  /\ UNCHANGED singleton
\* update_interval, line 126: remove the existing job.
update_interval_remove_job(c, minutes) ==
  /\ pc[c] = "idle"
  /\ ~exiting
  /\ Enter(c, "update_interval", minutes)
  /\ IF HasJob(get_jobs, JOB_ID)
       THEN /\ remove_job
            /\ pc' = [pc EXCEPT ![c] = "ui_add_job"]
            /\ raised' = raised
       ELSE /\ Raise(c, JobLookupError)
            /\ UNCHANGED <<pending_jobs, jobstore>>
  /\ UNCHANGED <<state, instances, pool_alive, exiting, round,
                 ping_results>>
  /\ UNCHANGED urls_table
  /\ UNCHANGED singleton

\* update_interval, lines 129-135: add the job with the new interval.
update_interval_add_job(c) ==
  /\ pc[c] = "ui_add_job"
  /\ add_job(call[c].minutes)
  /\ Return(c)
  /\ UNCHANGED <<state, instances, pool_alive, exiting, raised, round,
                 ping_results>>
  /\ UNCHANGED urls_table
  /\ UNCHANGED singleton

\* get_scheduler_status, lines 150-154: the state and the number of jobs.
get_scheduler_status(c) ==
  /\ pc[c] = "idle"
  /\ ~exiting
  /\ Entered(c, [name |-> "get_scheduler_status", minutes |-> 0,
                  from |-> state,
                  alone |-> \A d \in Callers \ {c} : pc[d] = "idle",
                  jobs |-> Len(get_jobs),
                  during_update |-> \E d \in Callers : pc[d] = "ui_add_job"])
  /\ pc' = [pc EXCEPT ![c] = "status"]
  /\ UNCHANGED <<sched, raised, round, ping_results>>
  /\ UNCHANGED urls_table
  /\ UNCHANGED singleton

get_scheduler_status_return(c) ==
  /\ pc[c] = "status"
  /\ Return(c)
  /\ UNCHANGED <<sched, raised, round, ping_results>>
  /\ UNCHANGED urls_table
  /\ UNCHANGED singleton

ControlNames == {"stop_monitoring", "pause_monitoring", "resume_monitoring"}

Next ==
  \/ timer_tick_run
  \/ timer_tick_skip
  \/ \E t \in Threads : run_ping_round_list(t)
  \/ \E t \in Threads : run_ping_round_error(t)
  \/ \E t \in Threads : run_ping_round_probe(t)
  \/ \E t \in Threads : run_ping_round_summary(t)
  \/ \E c \in Callers : propagate(c)
  \/ \E c \in Callers, m \in Intervals : start_monitoring_add_job(c, m)
  \/ \E c \in Callers : start_monitoring_start(c)
  \/ \E c \in Callers : run_manual_ping(c)
  \/ \E c \in Callers : stop_monitoring(c)
  \/ \E c \in Callers : stop_monitoring_shutdown(c)
  \/ \E c \in Callers : stop_monitoring_wait(c)
  \/ \E c \in Callers : shutdown(c)
  \/ \E c \in Callers : shutdown_shutdown(c)
  \/ \E c \in Callers : pause_monitoring(c)
  \/ \E c \in Callers : pause_monitoring_pause(c)
  \/ \E c \in Callers : resume_monitoring(c)
  \/ \E c \in Callers : resume_monitoring_resume(c)
  \/ \E c \in Callers, n \in ControlNames : control_call_no_op(c, n)
  \/ \E c \in Callers : control_call_no_op_return(c)
  \/ \E c \in Callers, m \in Intervals : update_interval_remove_job(c, m)
  \/ \E c \in Callers : update_interval_add_job(c)
  \/ \E c \in Callers : get_scheduler_status(c)
  \/ \E c \in Callers : get_scheduler_status_return(c)

Spec == Init /\ [][Next]_vars

\* ================================================================== claims
PoolRounds == {p \in Pool : InRound(p)}

\* Rows for url u among those inserted after the first b rows of the log.
CountSince(b, u) ==
  Cardinality({i \in (b + 1)..Len(ping_results) : ping_results[i].url_id = u})

\* C1 (as claimed): in every reachable state at most one probe round is in
\* flight, whichever of the initial round of start_monitoring, the timer
\* ticks and run_manual_ping started it.
C1_AtMostOneRoundInFlight == RoundsInFlight <= 1

\* C2 (as claimed): when run_manual_ping is requested while the timer job is
\* executing a round, no second round runs: the rows persisted since the
\* scheduled round began are one round's worth, at most one per target.
C2_ManualDuringScheduledOneRoundWorth ==
  \A p \in Pool, c \in Callers :
    ( /\ InRound(p)
      /\ InRound(c)
      /\ call[c].name = "run_manual_ping"
      /\ round[c].base >= round[p].base )
    => \A u \in RegisteredUrls : CountSince(round[p].base, u) <= 1

\* C3: a timer tick that arrives while a timer-started round is executing is
\* refused and not kept: at most one timer-started round is in flight, and
\* every run the executor has accepted is executing (none waits to run
\* later).
C3_TickSkippedNoBacklog ==
  /\ Cardinality(PoolRounds) <= 1
  /\ instances = Cardinality(PoolRounds)
  /\ \A p \in Pool : round[p].refused => InRound(p)

\* C3 witness: a tick was refused while a timer-started round is executing.
C3_Witness == \E p \in Pool : InRound(p) /\ round[p].refused

\* ---- helpers of the claims about the control calls
\* Thread c leaves the statement at position l in this step.
Leaves(c, l) == pc[c] = l /\ pc'[c] # l
\* Thread c enters the method name in this step.
Enters(c, name) == pc[c] = "idle" /\ pc'[c] # "idle" /\ call'[c].name = name
\* A timer tick starts a round in this step.
TimerRoundStarts == \E p \in Pool : ~InRound(p) /\ pc'[p] = "rp_list"
\* The step leaves every round in flight, and the log, as they are.
RoundsUntouched ==
  /\ round' = round
  /\ ping_results' = ping_results
  /\ \A t \in Threads : InRound(t) => pc'[t] = pc[t]
\* The round of thread t can take its next step.
RoundCanStep(t) ==
  ENABLED (\/ run_ping_round_list(t)
           \/ run_ping_round_probe(t)
           \/ run_ping_round_summary(t))
\* Every target has a row written during the round of thread t.
AllPersisted(t) ==
  \A u \in RegisteredUrls : CountSince(round[t].base, u) >= 1
\* A start_monitoring call made in state s that no other call has overlapped.
StartAlone(c, s) ==
  /\ call[c].name = "start_monitoring"
  /\ call[c].from = s
  /\ call[c].alone

C5_AtMostOneTimerJob ==
  /\ Len(jobstore) <= 1
  /\ (\A c \in Callers : pc[c] = "idle") => Len(get_jobs) <= 1

\* C5 witness: a second start_monitoring call, made while Running, has added
\* its job and the store holds one job, at the interval of that call.
C5_Witness ==
  \E c \in Callers :
    /\ StartAlone(c, STATE_RUNNING)
    /\ pc[c] = "sm_start"
    /\ jobstore = <<Job(call[c].minutes)>>
    /\ call[c].minutes = 60

\* C6 (as claimed): start_monitoring(interval) called in any state (Stopped,
\* Running or Paused), with no other control call overlapping it, moves the
\* scheduler to Running with the timer registered at the given interval and
\* runs the immediate round.
C6_StartFromAnyState ==
  \A c \in Callers :
    ( /\ call[c].name = "start_monitoring"
      /\ call[c].alone
      /\ pc[c] # "sm_start" )
    => /\ InRound(c)
       /\ state = STATE_RUNNING
       /\ get_jobs = <<Job(call[c].minutes)>>

C9_UpdateIntervalAtomic ==
  \A o \in Callers :
    (pc[o] = "status" /\ call[o].during_update) => call[o].jobs >= 1

\* C10: an error raised while executing a round is caught inside
\* run_ping_round: the thread returns normally (nothing is raised to the
\* caller), the scheduler state and its jobs are unchanged, a pool thread
\* gives its run slot back, and whenever the scheduler is Running with its
\* job and no timer-started round executing, the next tick can start a
\* round.
C10_RoundErrorCaught ==
  [][/\ \A t \in Threads :
          Leaves(t, "rp_except") =>
            /\ pc'[t] = "idle"
            /\ raised'[t] = NoError
            /\ state' = state
            /\ jobstore' = jobstore
            /\ pending_jobs' = pending_jobs
            /\ pool_alive' = pool_alive
            /\ t \in Pool => instances' = instances - 1
     /\ ( /\ state = STATE_RUNNING
          /\ HasJob(jobstore, JOB_ID)
          /\ pool_alive
          /\ PoolRounds = {}
          /\ RoundBudget ) => ENABLED timer_tick_run
    ]_vars

\* C10 witness: the initial round of start_monitoring has failed to list the
\* targets and the error is being handled, the scheduler Running with its
\* job.
C10_Witness ==
  \E c \in Callers :
    /\ pc[c] = "rp_except"
    /\ call[c].name = "start_monitoring"
    /\ state = STATE_RUNNING
    /\ HasJob(jobstore, JOB_ID)

\* The step leaves the scheduler state and the timer job as they are.
SchedulerUntouched ==
  /\ state' = state
  /\ pending_jobs' = pending_jobs
  /\ jobstore' = jobstore

\* C38: a control call made in a state where it does not apply leaves the
\* scheduler state and the timer job unchanged and raises no error:
\* pause_monitoring when Stopped or already Paused, resume_monitoring when
\* Stopped or Running, stop_monitoring when already Stopped.
C38_InapplicableControlCalls ==
  [][\A c \in Callers :
       /\ (/\ \/ Enters(c, "pause_monitoring")
              \/ Enters(c, "stop_monitoring")
           /\ state = STATE_STOPPED)
            => pc'[c] = "no_op" /\ SchedulerUntouched
       /\ (Enters(c, "resume_monitoring")
             /\ state \in {STATE_STOPPED, STATE_RUNNING})
            => pc'[c] = "no_op" /\ SchedulerUntouched
       /\ Leaves(c, "no_op")
            => pc'[c] = "idle" /\ raised'[c] = NoError /\ SchedulerUntouched
       /\ (Enters(c, "pause_monitoring") /\ state = STATE_PAUSED)
            => pc'[c] = "pause_pause" /\ SchedulerUntouched
       /\ (Leaves(c, "pause_pause") /\ state = STATE_PAUSED)
            => pc'[c] = "idle" /\ raised'[c] = NoError /\ SchedulerUntouched
    ]_vars

\* C38 witness: one caller is in pause_monitoring on a Paused scheduler
\* while another is returning from a resume_monitoring that did not apply,
\* and the timer job is registered.
C38_Witness ==
  /\ state = STATE_PAUSED
  /\ Len(jobstore) = 1
  /\ \E c, d \in Callers :
       /\ pc[c] = "pause_pause"
       /\ pc[d] = "no_op" /\ call[d].name = "resume_monitoring"

\* The timer job is registered (primed: after the step).
TimerJobRegistered == \E i \in 1..Len(get_jobs) : get_jobs[i].id = JOB_ID

\* C39: update_interval called when no timer job is registered fails with a
\* job-lookup error and registers no timer job; called when the timer job
\* exists it does not fail, ends with the job registered and never changes
\* the scheduler state.
C39_UpdateIntervalNeedsJob ==
  [][\A c \in Callers :
       /\ (Enters(c, "update_interval") /\ ~TimerJobRegistered)
            => /\ pc'[c] = "raised"
               /\ raised'[c] = JobLookupError
               /\ SchedulerUntouched
       /\ (Enters(c, "update_interval") /\ TimerJobRegistered)
            => /\ pc'[c] = "ui_add_job"
               /\ raised'[c] = NoError
               /\ state' = state
       /\ Leaves(c, "ui_add_job")
            => /\ pc'[c] = "idle"
               /\ raised'[c] = NoError
               /\ state' = state
               /\ TimerJobRegistered'
    ]_vars

\* C39 witness: one update_interval has failed with the job-lookup error and
\* no start_monitoring has been called, so no timer job is registered.
C39_Witness ==
  /\ state = STATE_STOPPED
  /\ get_jobs = <<>>
  /\ ping_results = <<>>
  /\ \E c \in Callers :
       /\ pc[c] = "raised"
       /\ raised[c] = JobLookupError
       /\ call[c].name = "update_interval"

\* ============================================================== the store
\* The tables and queries of app/database.py.  The specification StoreSpec
\* below has one client thread call add_ping_result and the queries; it uses
\* the variables ping_results, pc, call and raised, and leaves the scheduler
\* as constructed.

\* Rows the store specification lets the log grow to.
MaxRows == 2

\* The group names and country labels in ascending order.
GroupNames == <<"g1", "g2">>
CountryCodes == <<Null, <<"US">> >>

\* url_id arguments: the ids of the urls table and one that is in no row.
UrlIdArgs == {1, 2, 3, 4}
\* (status_code, response_time, error_message) arguments.
ProbeArgs ==
  { [status_code |-> Null, response_time |-> 30,
     error_message |-> <<"Request timeout">>],
    [status_code |-> <<199>>, response_time |-> 10, error_message |-> Null],
    [status_code |-> <<200>>, response_time |-> 10, error_message |-> Null],
    [status_code |-> <<300>>, response_time |-> 20, error_message |-> Null] }
\* CURRENT_TIMESTAMP, in seconds of the wall clock: two inserts may fall in
\* the same second, and the clock may have been set back between them.
Times == {1, 2}
\* datetime('now') at the queries.
Now == 3
\* hours_back arguments, in the unit of Times.
HoursBack == {1, 2}

StoreClients == {"c1"}

StoreInit ==
  /\ Init

\* ---- the rows and the SQL conditions
KnownUrlId(id) == \E i \in 1..Len(urls) : urls[i].id = id
url_row(id) == urls[CHOOSE i \in 1..Len(urls) : urls[i].id = id]

\* FOREIGN KEY (url_id) REFERENCES urls (id), lines 11-13 and 47: the
\* connection of get_connection() never sets PRAGMA foreign_keys, and SQLite
\* leaves foreign keys unenforced unless it is set, so every url_id passes.
foreign_key_ok(url_id) == TRUE

\* A table whose ids follow the target: the row of target n gets id n.
new_row_by_target(url_id, p, ts) ==
  [id |-> url_id, url_id |-> url_id,
   status_code |-> p.status_code, response_time |-> p.response_time,
   error_message |-> p.error_message, timestamp |-> ts]

\* The row INSERT INTO ping_results adds: id from AUTOINCREMENT, timestamp
\* from CURRENT_TIMESTAMP.
new_row(url_id, p, ts) ==
  [id |-> Len(ping_results) + 1, url_id |-> url_id,
   status_code |-> p.status_code, response_time |-> p.response_time,
   error_message |-> p.error_message, timestamp |-> ts]

RowIds == 1..Len(ping_results)

\* timestamp >= datetime('now', '-h hours')
in_window(i, h) == ping_results[i].timestamp >= Now - h
\* status_code >= 200 AND status_code < 300 (not true of NULL)
sql_success(s) == s # Null /\ s[1] >= 200 /\ s[1] < 300
\* status_code < 200 OR status_code >= 300 OR status_code IS NULL
sql_failed(s) == s = Null \/ s[1] < 200 \/ s[1] >= 300

\* ping_results pr JOIN urls u ON pr.url_id = u.id, within the window.
joined(h) == {i \in RowIds : KnownUrlId(ping_results[i].url_id) /\ in_window(i, h)}

\* The orders ORDER BY pr.timestamp DESC allows for the selected rows: every
\* arrangement with non-increasing timestamps.  SQL leaves the order of rows
\* with equal timestamps to the query plan.
order_by_timestamp_desc(ids) ==
  {s \in [1..Cardinality(ids) -> ids] :
     \A i, j \in 1..Cardinality(ids) :
       i < j => /\ s[i] # s[j]
                /\ ping_results[s[i]].timestamp >= ping_results[s[j]].timestamp}

\* x or 'Unknown'
or_Unknown(x) == IF x = Null \/ x = <<"">> THEN "Unknown" ELSE x[1]

\* a / b * 100 as the exact fraction; a zero divisor raises.
percent(a, b) ==
  IF b = 0 THEN [error |-> "ZeroDivisionError"]
  ELSE [num |-> a * 100, den |-> b]
Zero == [num |-> 0, den |-> 1]
\* round(x, 1) of a fraction, in tenths (halves round up; the fractions of
\* the tables considered here have none).
round1(x) == (20 * x.num + x.den) \div (2 * x.den)

RECURSIVE Sum(_, _)
Sum(f, S) ==
  IF S = {} THEN 0
  ELSE LET x == CHOOSE x \in S : TRUE IN f[x] + Sum(f, S \ {x})

MaxOf(S) == CHOOSE x \in S : \A y \in S : y <= x

\* ---- get_latest_status_by_group, lines 132-174
\* A subquery that takes the greatest id of the target in the whole table.
latest_id_any_window(url_id, h) ==
  LET S == {i \in RowIds : ping_results[i].url_id = url_id}
  IN  IF S = {} THEN Null ELSE <<MaxOf(S)>>
\* SELECT MAX(id) FROM ping_results pr2 WHERE pr2.url_id = pr.url_id AND
\* pr2.timestamp >= datetime('now', '-h hours'): NULL when no row qualifies.
latest_id(url_id, h) ==
  LET S == {i \in RowIds : ping_results[i].url_id = url_id /\ in_window(i, h)}
  IN  IF S = {} THEN Null ELSE <<MaxOf(S)>>

\* The rows the outer query selects.
latest_rows(h) ==
  {i \in joined(h) : <<i>> = latest_id(ping_results[i].url_id, h)}

latest_entry(k, i) ==
  [group_name |-> urls[k].group_name,
   country_code |-> or_Unknown(urls[k].country_code),
   url |-> urls[k].url,
   status_code |-> ping_results[i].status_code,
   response_time |-> ping_results[i].response_time,
   error_message |-> ping_results[i].error_message,
   timestamp |-> ping_results[i].timestamp]

\* The entries in the order of the query (group, country, url), each under
\* the group and country keys that the loop of lines 156-172 files it under.
RECURSIVE latest_from(_, _)
latest_from(k, h) ==
  IF k > Len(urls) THEN <<>>
  ELSE LET hit == {i \in latest_rows(h) : ping_results[i].url_id = urls[k].id}
       IN  (IF hit = {} THEN <<>> ELSE <<latest_entry(k, MaxOf(hit))>>)
             \o latest_from(k + 1, h)
get_latest_status_by_group(h) == latest_from(1, h)

\* ---- get_statistics, lines 176-216
\* The rate without the test of the total.
success_rate_unguarded(successful_pings, total_pings) ==
  percent(successful_pings, total_pings)
\* Line 215: (successful_pings / total_pings * 100) if total_pings > 0 else 0
success_rate(successful_pings, total_pings) ==
  IF total_pings > 0 THEN percent(successful_pings, total_pings) ELSE Zero

get_statistics(h) ==
  LET total_pings == Cardinality({i \in RowIds : in_window(i, h)})
      successful_pings ==
        Cardinality({i \in RowIds :
                       in_window(i, h) /\ sql_success(ping_results[i].status_code)})
      failed_pings ==
        Cardinality({i \in RowIds :
                       in_window(i, h) /\ sql_failed(ping_results[i].status_code)})
  IN  [total_urls |-> Len(urls),
       total_pings |-> total_pings,
       successful_pings |-> successful_pings,
       failed_pings |-> failed_pings,
       success_rate |-> success_rate(successful_pings, total_pings)]

\* ---- get_failed_requests, lines 218-245
failed_entry(i) ==
  LET u == url_row(ping_results[i].url_id)
  IN  [id |-> i, url |-> u.url, group_name |-> u.group_name,
       country_code |-> u.country_code,
       status_code |-> ping_results[i].status_code,
       response_time |-> ping_results[i].response_time,
       error_message |-> ping_results[i].error_message,
       timestamp |-> ping_results[i].timestamp]

\* The lists the query may return (id names the row of each entry; the code's
\* dictionaries do not carry it).
get_failed_requests(h) ==
  LET sel == {i \in joined(h) : sql_failed(ping_results[i].status_code)}
  IN  {[n \in DOMAIN s |-> failed_entry(s[n])] : s \in order_by_timestamp_desc(sel)}

\* ---- get_group_statistics and get_country_statistics, lines 247-340
\* The in-window rows of ping_results that match row k of urls.
matches(k, h) ==
  {i \in RowIds : ping_results[i].url_id = urls[k].id /\ in_window(i, h)}

\* An inner join: a url without a matching row gives no row.
inner_join(k, h) == {<<k, i>> : i \in matches(k, h)}
\* urls u LEFT JOIN ping_results pr ON u.id = pr.url_id AND pr.timestamp >=
\* datetime('now', '-h hours'): the rows for row k of urls, as pairs of k and
\* the id of the matching row; a url without a match gives one row whose pr
\* columns are all NULL (id 0 here).
left_join(k, h) ==
  IF matches(k, h) = {} THEN {<<k, 0>>} ELSE {<<k, i>> : i \in matches(k, h)}

\* The joined rows of the urls rows in K.
join_rows(K, h) == UNION {left_join(k, h) : k \in K}

\* The aggregates of one GROUP BY group, and lines 274-290 (322-337) on
\* them; the rates and the average are in tenths.
aggregates(J) ==
  LET real == {j \in J : j[2] # 0}
      total_requests == Cardinality(real)
      successful_requests ==
        Cardinality({j \in real : sql_success(ping_results[j[2]].status_code)})
      failed_requests ==
        Cardinality({j \in J :
                       j[2] = 0 \/ sql_failed(ping_results[j[2]].status_code)})
      total_time ==
        Sum([j \in real |-> ping_results[j[2]].response_time], real)
      avg == IF real = {} THEN Null
             ELSE <<[num |-> total_time, den |-> total_requests]>>
  IN  [total_urls |-> Cardinality({j[1] : j \in J}),
       total_countries |->
         Cardinality({urls[j[1]].country_code : j \in J} \ {Null}),
       total_requests |-> total_requests,
       successful_requests |-> successful_requests,
       failed_requests |-> failed_requests,
       success_rate |-> IF total_requests > 0
                          THEN round1(percent(successful_requests, total_requests))
                          ELSE 0,
       failure_rate |-> IF total_requests > 0
                          THEN round1(percent(failed_requests, total_requests))
                          ELSE 0,
       avg_response_time |-> IF avg # Null /\ avg[1].num # 0
                               THEN round1(avg[1]) ELSE 0]

RECURSIVE group_stats_from(_, _)
group_stats_from(n, h) ==
  IF n > Len(GroupNames) THEN <<>>
  ELSE LET J == join_rows({k \in 1..Len(urls) :
                             urls[k].group_name = GroupNames[n]}, h)
       IN  (IF J = {} THEN <<>>
            ELSE <<[group_name |-> GroupNames[n]] @@ aggregates(J)>>)
             \o group_stats_from(n + 1, h)
get_group_statistics(h) == group_stats_from(1, h)

RECURSIVE country_stats_from(_, _, _)
country_stats_from(n, group_name, h) ==
  IF n > Len(CountryCodes) THEN <<>>
  ELSE LET J == join_rows({k \in 1..Len(urls) :
                             /\ urls[k].group_name = group_name
                             /\ urls[k].country_code = CountryCodes[n]}, h)
       IN  (IF J = {} THEN <<>>
            ELSE <<[country_code |-> or_Unknown(CountryCodes[n])]
                     @@ [a \in DOMAIN aggregates(J) \ {"total_countries"} |->
                           aggregates(J)[a]]>>)
             \o country_stats_from(n + 1, group_name, h)
get_country_statistics(group_name, h) == country_stats_from(1, group_name, h)

\* ---- get_all_requests_for_country, lines 342-368
\* u.country_code = ? OR (u.country_code IS NULL AND ? = 'Unknown')
country_matches(u, country_code) ==
  \/ u.country_code = <<country_code>>
  \/ u.country_code = Null /\ country_code = "Unknown"

\* row[1] and 200 <= row[1] < 300
is_success(s) == IF s = Null THEN Null ELSE <<200 <= s[1] /\ s[1] < 300>>

request_entry(i) ==
  [id |-> i, url |-> url_row(ping_results[i].url_id).url,
   status_code |-> ping_results[i].status_code,
   response_time |-> ping_results[i].response_time,
   error_message |-> ping_results[i].error_message,
   timestamp |-> ping_results[i].timestamp,
   is_success |-> is_success(ping_results[i].status_code)]

\* The lists the query may return (id names the row of each entry).
get_all_requests_for_country(group_name, country_code, h) ==
  LET sel == {i \in joined(h) :
                /\ url_row(ping_results[i].url_id).group_name = group_name
                /\ country_matches(url_row(ping_results[i].url_id), country_code)}
  IN  {[n \in DOMAIN s |-> request_entry(s[n])] : s \in order_by_timestamp_desc(sel)}

\* ---- the calls of the client
\* The call of thread c returns result.
Returned(c, rec) ==
  /\ pc' = [pc EXCEPT ![c] = "returned"]
  /\ call' = [call EXCEPT ![c] = rec]
  /\ raised' = raised

\* add_ping_result, lines 92-103: INSERT and commit on a connection of its
\* own.  A foreign key violation would raise sqlite3.IntegrityError.
add_ping_result(c, url_id, p, ts) ==
  /\ pc[c] = "idle"
  /\ Len(ping_results) < MaxRows
  /\ IF foreign_key_ok(url_id)
       THEN /\ ping_results' = Append(ping_results, new_row(url_id, p, ts))
            /\ Returned(c, [name |-> "add_ping_result", url_id |-> url_id,
                            rows_before |-> Len(ping_results)])
       ELSE /\ Raise(c, "IntegrityError")
            /\ call' = [call EXCEPT ![c] =
                          [name |-> "add_ping_result", url_id |-> url_id,
                           rows_before |-> Len(ping_results)]]
            /\ ping_results' = ping_results
  /\ UNCHANGED <<sched, round>>
  /\ UNCHANGED urls_table
  /\ UNCHANGED singleton

call_get_latest_status_by_group(c, h) ==
  /\ pc[c] = "idle"
  /\ Returned(c, [name |-> "get_latest_status_by_group", hours_back |-> h,
                  result |-> get_latest_status_by_group(h)])
  /\ UNCHANGED <<sched, round, ping_results>>
  /\ UNCHANGED urls_table
  /\ UNCHANGED singleton

\* A division by zero in line 215 would leave get_statistics as an exception.
call_get_statistics(c, h) ==
  /\ pc[c] = "idle"
  /\ IF "error" \in DOMAIN get_statistics(h).success_rate
       THEN /\ Raise(c, get_statistics(h).success_rate.error)
            /\ call' = [call EXCEPT ![c] =
                          [name |-> "get_statistics", hours_back |-> h]]
       ELSE Returned(c, [name |-> "get_statistics", hours_back |-> h,
                         result |-> get_statistics(h)])
  /\ UNCHANGED <<sched, round, ping_results>>
  /\ UNCHANGED urls_table
  /\ UNCHANGED singleton

call_get_failed_requests(c, h) ==
  /\ pc[c] = "idle"
  /\ \E r \in get_failed_requests(h) :
       Returned(c, [name |-> "get_failed_requests", hours_back |-> h,
                    result |-> r])
  /\ UNCHANGED <<sched, round, ping_results>>
  /\ UNCHANGED urls_table
  /\ UNCHANGED singleton

call_get_group_statistics(c, h) ==
  /\ pc[c] = "idle"
  /\ Returned(c, [name |-> "get_group_statistics", hours_back |-> h,
                  result |-> get_group_statistics(h)])
  /\ UNCHANGED <<sched, round, ping_results>>
  /\ UNCHANGED urls_table
  /\ UNCHANGED singleton

call_get_country_statistics(c, group_name, h) ==
  /\ pc[c] = "idle"
  /\ Returned(c, [name |-> "get_country_statistics",
                  group_name |-> group_name, hours_back |-> h,
                  result |-> get_country_statistics(group_name, h)])
  /\ UNCHANGED <<sched, round, ping_results>>
  /\ UNCHANGED urls_table
  /\ UNCHANGED singleton

call_get_all_requests_for_country(c, group_name, country_code, h) ==
  /\ pc[c] = "idle"
  /\ \E r \in get_all_requests_for_country(group_name, country_code, h) :
       Returned(c, [name |-> "get_all_requests_for_country",
                    group_name |-> group_name, country_code |-> country_code,
                    hours_back |-> h, result |-> r])
  /\ UNCHANGED <<sched, round, ping_results>>
  /\ UNCHANGED urls_table
  /\ UNCHANGED singleton

\* The caller has the result.
store_call_return(c) ==
  /\ pc[c] = "returned"
  /\ Return(c)
  /\ UNCHANGED <<sched, raised, round, ping_results>>
  /\ UNCHANGED urls_table
  /\ UNCHANGED singleton

\* The group_name and country_code arguments of the routes.
GroupArgs == {GroupNames[n] : n \in 1..Len(GroupNames)}
CountryArgs == {"Unknown", "US"}

StoreNext ==
  \/ \E c \in StoreClients, u \in UrlIdArgs, p \in ProbeArgs, ts \in Times :
       add_ping_result(c, u, p, ts)
  \/ \E c \in StoreClients, h \in HoursBack :
       call_get_latest_status_by_group(c, h)
  \/ \E c \in StoreClients, h \in HoursBack : call_get_statistics(c, h)
  \/ \E c \in StoreClients, h \in HoursBack : call_get_failed_requests(c, h)
  \/ \E c \in StoreClients, h \in HoursBack : call_get_group_statistics(c, h)
  \/ \E c \in StoreClients, g \in GroupArgs, h \in HoursBack :
       call_get_country_statistics(c, g, h)
  \/ \E c \in StoreClients, g \in GroupArgs, k \in CountryArgs, h \in HoursBack :
       call_get_all_requests_for_country(c, g, k, h)
  \/ \E c \in StoreClients : store_call_return(c)

StoreSpec == StoreInit /\ [][StoreNext]_vars

\* ================================================== claims about the store
\* The client's call of the method name has returned.
HasReturned(c, name) == pc[c] = "returned" /\ call[c].name = name
\* The rows of target url_id whose timestamp lies in the window of h hours.
InWindowOf(url_id, h) ==
  {i \in RowIds : /\ ping_results[i].url_id = url_id
                  /\ ping_results[i].timestamp >= Now - h}
\* The entries of the list r are in the order of insertion, newest first.
NewestFirst(r) == \A m, n \in 1..Len(r) : m < n => r[m].id > r[n].id

\* C11 (as claimed): add_ping_result called with a url_id that is in no row of
\* urls fails with an error and adds no row; called with the id of a row of
\* urls it returns and has added exactly one row.
C11_UnknownTargetRejected ==
  \A c \in StoreClients :
    (call[c].name = "add_ping_result" /\ pc[c] \in {"returned", "raised"}) =>
      IF KnownUrlId(call[c].url_id)
        THEN /\ pc[c] = "returned"
             /\ Len(ping_results) = call[c].rows_before + 1
        ELSE /\ pc[c] = "raised"
             /\ Len(ping_results) = call[c].rows_before

\* C13: get_latest_status_by_group(hours_back) returns, for each target with
\* a result whose timestamp is in the window, exactly one entry, which
\* carries the values of the in-window result of greatest id of that target
\* under the target's group and country, however the timestamps of the
\* results are ordered or tie; a target without an in-window result has no
\* entry.
C13_LatestPerTargetById ==
  \A c \in StoreClients :
    HasReturned(c, "get_latest_status_by_group") =>
      LET r == call[c].result
          h == call[c].hours_back
      IN  \A k \in 1..Len(urls) :
            LET W == InWindowOf(urls[k].id, h)
                E == {n \in 1..Len(r) : r[n].url = urls[k].url}
            IN  IF W = {} THEN E = {}
                ELSE /\ Cardinality(E) = 1
                     /\ \A n \in E :
                          LET row == ping_results[MaxOf(W)]
                          IN  /\ r[n].status_code = row.status_code
                              /\ r[n].response_time = row.response_time
                              /\ r[n].error_message = row.error_message
                              /\ r[n].timestamp = row.timestamp
                              /\ r[n].group_name = urls[k].group_name

\* C13 witness: target 1 has two results in the window, the one of greater
\* id with the earlier timestamp and another status, and the entry returned
\* for the target is that one.
C13_Witness ==
  \E c \in StoreClients :
    /\ HasReturned(c, "get_latest_status_by_group")
    /\ Len(ping_results) = 2
    /\ ping_results[1].url_id = 1 /\ ping_results[2].url_id = 1
    /\ ping_results[1].timestamp > ping_results[2].timestamp
    /\ ping_results[1].status_code = <<200>>
    /\ ping_results[2].status_code = Null
    /\ call[c].hours_back = 2
    /\ Len(call[c].result) = 1
    /\ call[c].result[1].status_code = Null

\* C14: get_statistics raises no error; with no result in the window it
\* returns success_rate 0, and with total > 0 results in the window, of which
\* successful have a status code in [200, 300), it returns
\* successful / total * 100.
C14_SuccessRate ==
  \A c \in StoreClients :
    (call[c].name = "get_statistics" /\ pc[c] \in {"returned", "raised"}) =>
      /\ pc[c] = "returned"
      /\ LET rate == call[c].result.success_rate
             W == {i \in RowIds :
                     ping_results[i].timestamp >= Now - call[c].hours_back}
             total == Cardinality(W)
             successful ==
               Cardinality({i \in W :
                              /\ ping_results[i].status_code # Null
                              /\ ping_results[i].status_code[1] >= 200
                              /\ ping_results[i].status_code[1] < 300})
         IN  /\ call[c].result.total_pings = total
             /\ IF total = 0 THEN rate = Zero
                ELSE rate.num * total = 100 * successful * rate.den

\* C14 witness: the log has rows, none of them in the window, and
\* get_statistics has returned with total_pings 0.
C14_Witness ==
  \E c \in StoreClients :
    /\ HasReturned(c, "get_statistics")
    /\ Len(ping_results) > 0
    /\ call[c].result.total_pings = 0
    /\ call[c].result.success_rate = Zero

\* The group names of the registered targets, and the rows of urls of a
\* group.
RegisteredGroups == {urls[k].group_name : k \in 1..Len(urls)}
TargetsOf(group_name) == {k \in 1..Len(urls) : urls[k].group_name = group_name}

\* C15: get_group_statistics returns exactly one row for each distinct group
\* name of the registered targets and no other row, also for a group whose
\* targets have no result in the window; the row of such a group has
\* success_rate, failure_rate and avg_response_time 0.
C15_OneRowPerGroup ==
  \A c \in StoreClients :
    HasReturned(c, "get_group_statistics") =>
      LET r == call[c].result
          h == call[c].hours_back
      IN  /\ \A n \in 1..Len(r) : r[n].group_name \in RegisteredGroups
          /\ \A g \in RegisteredGroups :
               LET E == {n \in 1..Len(r) : r[n].group_name = g}
               IN  /\ Cardinality(E) = 1
                   /\ (\A k \in TargetsOf(g) : InWindowOf(urls[k].id, h) = {})
                        => \A n \in E : /\ r[n].success_rate = 0
                                        /\ r[n].failure_rate = 0
                                        /\ r[n].avg_response_time = 0

\* C15 witness: the targets of g1 have results in the window, those of g2
\* have none, and get_group_statistics has returned a row for each group,
\* the one of g2 with no requests and rates 0.
C15_Witness ==
  \E c \in StoreClients :
    /\ HasReturned(c, "get_group_statistics")
    /\ Len(call[c].result) = 2
    /\ call[c].result[1].group_name = "g1"
    /\ call[c].result[1].total_requests = 2
    /\ call[c].result[1].success_rate = 500
    /\ call[c].result[2].group_name = "g2"
    /\ call[c].result[2].total_requests = 0
    /\ call[c].result[2].success_rate = 0
    /\ call[c].result[2].avg_response_time = 0

\* C16 (as claimed): a target whose country is null is reported by
\* get_country_statistics under the label "Unknown", and
\* get_all_requests_for_country(group, "Unknown", hours) returns all the
\* in-window results of the null-country targets of the group, whatever
\* their status, newest first.
C16_NullCountryIsUnknown ==
  \A c \in StoreClients :
    LET NullTargets ==
          IF "group_name" \in DOMAIN call[c]
            THEN {k \in TargetsOf(call[c].group_name) :
                    urls[k].country_code = Null}
            ELSE {}
    IN  /\ (HasReturned(c, "get_country_statistics") /\ NullTargets # {}) =>
             \E n \in 1..Len(call[c].result) :
               /\ call[c].result[n].country_code = "Unknown"
               /\ call[c].result[n].total_urls = Cardinality(NullTargets)
        /\ ( /\ HasReturned(c, "get_all_requests_for_country")
             /\ call[c].country_code = "Unknown" ) =>
             LET r == call[c].result
                 T == UNION {InWindowOf(urls[k].id, call[c].hours_back) :
                               k \in NullTargets}
             IN  /\ {r[n].id : n \in 1..Len(r)} = T
                 /\ Len(r) = Cardinality(T)
                 /\ NewestFirst(r)

\* C17 (as claimed): get_failed_requests(hours_back) returns exactly the
\* in-window results of the registered targets whose status code is null,
\* below 200, or 300 and above, and a result inserted later never stands
\* after a result inserted earlier.
C17_FailedNewestFirst ==
  \A c \in StoreClients :
    HasReturned(c, "get_failed_requests") =>
      LET r == call[c].result
          F == {i \in RowIds :
                  /\ KnownUrlId(ping_results[i].url_id)
                  /\ ping_results[i].timestamp >= Now - call[c].hours_back
                  /\ \/ ping_results[i].status_code = Null
                     \/ ping_results[i].status_code[1] < 200
                     \/ ping_results[i].status_code[1] >= 300}
      IN  /\ {r[n].id : n \in 1..Len(r)} = F
          /\ Len(r) = Cardinality(F)
          /\ NewestFirst(r)

\* C34 (as claimed): in every row returned by get_group_statistics and by
\* get_country_statistics, successful_requests + failed_requests =
\* total_requests, also in the rows that cover a target with no in-window
\* result.
C34_RequestsAddUp ==
  \A c \in StoreClients :
    (HasReturned(c, "get_group_statistics")
       \/ HasReturned(c, "get_country_statistics")) =>
      \A n \in 1..Len(call[c].result) :
        call[c].result[n].successful_requests
          + call[c].result[n].failed_requests
          = call[c].result[n].total_requests

\* C35 (as claimed): for every group, total_countries reported by
\* get_group_statistics equals the number of rows get_country_statistics
\* returns for that group over the same table and window, also when a
\* target of the group has a null country.
C35_CountriesMatchRows ==
  \A c \in StoreClients :
    HasReturned(c, "get_group_statistics") =>
      \A n \in 1..Len(call[c].result) :
        call[c].result[n].total_countries =
          Len(get_country_statistics(call[c].result[n].group_name,
                                     call[c].hours_back))

\* ================================================================ ping_url
\* One probe: ping_url of PingService (app/ping_service.py), of CIMonitor
\* (ci_monitor.py) and of PersistentCIMonitor (ci_monitor_persistent.py).
\* The specification PingSpec below has one thread call them with every
\* outcome of the HTTP GET; it uses the variables ping_results, pc, call and
\* raised.

\* The exception classes session.get raises, each with the classes an except
\* clause catches it as (requests.exceptions: SSLError and ConnectTimeout
\* derive from ConnectionError, ConnectTimeout and ReadTimeout from Timeout).
Bases(exc) ==
  CASE exc = "ReadTimeout" ->
         {"ReadTimeout", "Timeout", "RequestException", "Exception"}
    [] exc = "ConnectTimeout" ->
         {"ConnectTimeout", "ConnectionError", "Timeout", "RequestException",
          "Exception"}
    [] exc = "ConnectionError" ->
         {"ConnectionError", "RequestException", "Exception"}
    [] exc = "SSLError" ->
         {"SSLError", "ConnectionError", "RequestException", "Exception"}
    [] exc = "TooManyRedirects" ->
         {"TooManyRedirects", "RequestException", "Exception"}

\* What session.get may end in: a response with its status code, or an
\* exception.
TransportOutcomes ==
  {[kind |-> "response", status_code |-> n] : n \in {199, 200, 299, 300}}
    \cup {[kind |-> "exception", exc |-> e] :
            e \in {"ReadTimeout", "ConnectTimeout", "ConnectionError",
                   "SSLError", "TooManyRedirects"}}

\* The first except clause, in the order written, that catches exc.
handler(clauses, exc) ==
  clauses[CHOOSE n \in 1..Len(clauses) :
            /\ clauses[n] \in Bases(exc)
            /\ \A m \in 1..(n - 1) : clauses[m] \notin Bases(exc)]

\* A test that counts redirect codes as success.
success_below_400(status_code) == 200 <= status_code /\ status_code < 400
\* 200 <= status_code < 300 (ping_service.py line 61, ci_monitor.py line
\* 100, ci_monitor_persistent.py line 116)
success_2xx(status_code) == 200 <= status_code /\ status_code < 300

\* PingService.ping_url, lines 67-121: the except clauses in their order,
\* and the error_message each sets.
PingService_except == <<"Timeout", "ConnectionError", "SSLError", "Exception">>
PingService_message(clause, exc) ==
  CASE clause = "Timeout" -> <<"Request timeout">>
    [] clause = "ConnectionError" -> <<"Connection error">>
    [] clause = "SSLError" -> <<"SSL certificate error">>
    [] clause = "Exception" -> <<"Unknown error: ", exc>>

\* PingService.ping_url, lines 36-121: the result dictionary for outcome o.
PingService_classify(o) ==
  IF o.kind = "response"
    THEN [status_code |-> <<o.status_code>>, error_message |-> Null,
          success |-> success_2xx(o.status_code)]
    ELSE [status_code |-> Null,
          error_message |->
            PingService_message(handler(PingService_except, o.exc), o.exc),
          success |-> FALSE]

\* CIMonitor.ping_url, lines 76-175: the same clauses in the same order.
CIMonitor_except == <<"Timeout", "ConnectionError", "SSLError", "Exception">>
CIMonitor_classify(o) ==
  IF o.kind = "response"
    THEN [status_code |-> <<o.status_code>>, error_message |-> Null,
          success |-> success_2xx(o.status_code)]
    ELSE [status_code |-> Null,
          error_message |->
            PingService_message(handler(CIMonitor_except, o.exc), o.exc),
          success |-> FALSE]

\* PersistentCIMonitor.ping_url, lines 93-157: a response outside 2xx gets
\* the message "HTTP <code>"; the last clause keeps str(e).
PersistentCIMonitor_except == <<"Timeout", "ConnectionError", "Exception">>
PersistentCIMonitor_classify(o) ==
  IF o.kind = "response"
    THEN [status_code |-> <<o.status_code>>,
          error_message |-> IF success_2xx(o.status_code) THEN Null
                            ELSE <<"HTTP ", o.status_code>>,
          success |-> success_2xx(o.status_code)]
    ELSE [status_code |-> Null,
          error_message |->
            LET clause == handler(PersistentCIMonitor_except, o.exc)
            IN  IF clause = "Exception" THEN <<o.exc>>
                ELSE PingService_message(clause, o.exc),
          success |-> FALSE]

\* The time ping_url measures, in milliseconds.
response_time == 10

PingClients == {"c1"}
\* Rows the ping_url specification lets PingService write.
MaxProbes == 1
\* What the INSERT or the commit of add_ping_result may end in: the row is
\* written, or sqlite3 raises (the database is locked by another writer for
\* longer than the connection's timeout, the disk is full).
WriteOutcomes == {"ok", "OperationalError"}

PingInit ==
  /\ Init

\* PingService.ping_url, lines 30-121: the GET and its classification.
PingService_ping_url(c, url_id, o) ==
  /\ pc[c] = "idle"
  /\ Len(ping_results) < MaxProbes
  /\ pc' = [pc EXCEPT ![c] = "pu_save"]
  /\ call' = [call EXCEPT ![c] =
                [name |-> "PingService.ping_url", url_id |-> url_id,
                 outcome |-> o, result |-> PingService_classify(o)]]
  /\ UNCHANGED <<sched, raised, round, ping_results>>
  /\ UNCHANGED urls_table
  /\ UNCHANGED singleton

\* PingService.ping_url, lines 124-131: add_ping_result, outside the try
\* statement, then return result.
PingService_ping_url_save(c) ==
  /\ pc[c] = "pu_save"
  /\ \E w \in WriteOutcomes, ts \in Times :
       IF w = "ok"
         THEN /\ ping_results' =
                   Append(ping_results,
                          new_row(call[c].url_id,
                                  [status_code |-> call[c].result.status_code,
                                   response_time |-> response_time,
                                   error_message |-> call[c].result.error_message],
                                  ts))
              /\ pc' = [pc EXCEPT ![c] = "returned"]
              /\ raised' = raised
         ELSE /\ Raise(c, w)
              /\ ping_results' = ping_results
  /\ UNCHANGED <<sched, call, round>>
  /\ UNCHANGED urls_table
  /\ UNCHANGED singleton

CIMonitor_ping_url(c, url_id, o) ==
  /\ pc[c] = "idle"
  /\ Returned(c, [name |-> "CIMonitor.ping_url", url_id |-> url_id,
                  outcome |-> o, result |-> CIMonitor_classify(o)])
  /\ UNCHANGED <<sched, round, ping_results>>
  /\ UNCHANGED urls_table
  /\ UNCHANGED singleton

PersistentCIMonitor_ping_url(c, url_id, o) ==
  /\ pc[c] = "idle"
  /\ Returned(c, [name |-> "PersistentCIMonitor.ping_url", url_id |-> url_id,
                  outcome |-> o, result |-> PersistentCIMonitor_classify(o)])
  /\ UNCHANGED <<sched, round, ping_results>>
  /\ UNCHANGED urls_table
  /\ UNCHANGED singleton

\* PersistentCIMonitor.monitor_urls, lines 174-187: the result of a
\* completed ping_url is written with add_ping_result at once; an error of
\* the write is printed and the loop goes on.
PersistentCIMonitor_monitor_urls_save(c) ==
  /\ pc[c] = "returned"
  /\ call[c].name = "PersistentCIMonitor.ping_url"
  /\ Len(ping_results) < MaxProbes
  /\ \E w \in WriteOutcomes, ts \in Times :
       ping_results' =
         IF w = "ok"
           THEN Append(ping_results,
                       new_row(call[c].url_id,
                               [status_code |-> call[c].result.status_code,
                                response_time |-> response_time,
                                error_message |-> call[c].result.error_message],
                               ts))
           ELSE ping_results
  /\ Return(c)
  /\ UNCHANGED <<sched, raised, round>>
  /\ UNCHANGED urls_table
  /\ UNCHANGED singleton

\* The caller has the result dictionary.
ping_url_return(c) ==
  /\ pc[c] = "returned"
  /\ Return(c)
  /\ UNCHANGED <<sched, raised, round, ping_results>>
  /\ UNCHANGED urls_table
  /\ UNCHANGED singleton

UrlIds == {urls[k].id : k \in 1..Len(urls)}

PingNext ==
  \/ \E c \in PingClients, u \in UrlIds, o \in TransportOutcomes :
       PingService_ping_url(c, u, o)
  \/ \E c \in PingClients : PingService_ping_url_save(c)
  \/ \E c \in PingClients, u \in UrlIds, o \in TransportOutcomes :
       CIMonitor_ping_url(c, u, o)
  \/ \E c \in PingClients, u \in UrlIds, o \in TransportOutcomes :
       PersistentCIMonitor_ping_url(c, u, o)
  \/ \E c \in PingClients : PersistentCIMonitor_monitor_urls_save(c)
  \/ \E c \in PingClients : ping_url_return(c)
  \/ \E c \in PingClients : propagate(c)

PingSpec == PingInit /\ [][PingNext]_vars

\* ================================================= claims about ping_url
\* Thread c holds the result dictionary of a ping_url call.
HasResult(c) ==
  /\ pc[c] \in {"pu_save", "returned"}
  /\ call[c].name \in {"PingService.ping_url", "CIMonitor.ping_url",
                       "PersistentCIMonitor.ping_url"}

\* The error message the classification in priority order gives each
\* exception: a timeout, else a refused or unreachable connection, else a
\* TLS or certificate failure, else any other exception.
ClaimedMessage(exc) ==
  IF exc \in {"ReadTimeout", "ConnectTimeout"} THEN <<"Request timeout">>
  ELSE IF exc = "ConnectionError" THEN <<"Connection error">>
  ELSE IF exc = "SSLError" THEN <<"SSL certificate error">>
  ELSE <<"Unknown error: ", exc>>

\* C18 (as claimed): ping_url of PingService and of CIMonitor gives a
\* timeout "Request timeout", a refused or unreachable connection
\* "Connection error", a TLS or certificate failure "SSL certificate error"
\* and any other exception "Unknown error: <detail>", the TLS error class
\* being a subclass of the connection error class.
C18_ClassificationOrder ==
  \A c \in PingClients :
    ( /\ HasResult(c)
      /\ call[c].name \in {"PingService.ping_url", "CIMonitor.ping_url"}
      /\ call[c].outcome.kind = "exception" )
    => call[c].result.error_message = ClaimedMessage(call[c].outcome.exc)

\* C19 (as claimed): PingService.ping_url never raises to its caller,
\* whatever the GET and the store write it performs end in.
C19_PingUrlNeverRaises ==
  \A c \in PingClients :
    call[c].name = "PingService.ping_url" => pc[c] # "raised"

\* C20: in every result dictionary of a ping_url of PingService, CIMonitor
\* or PersistentCIMonitor, success is true exactly when a status code is
\* present and 200 <= status code < 300.
C20_SuccessIff2xx ==
  \A c \in PingClients :
    HasResult(c) =>
      LET r == call[c].result
      IN  r.success <=> ( /\ r.status_code # Null
                          /\ 200 <= r.status_code[1]
                          /\ r.status_code[1] < 300 )

\* C20 witness: PersistentCIMonitor.ping_url has returned the result of a
\* response with status 300: the status code is present and success false.
C20_Witness ==
  \E c \in PingClients :
    /\ pc[c] = "returned"
    /\ call[c].name = "PersistentCIMonitor.ping_url"
    /\ call[c].result.status_code = <<300>>
    /\ ~call[c].result.success

\* C21 (as claimed): every row a writer has put into ping_results, by a
\* PingService probe or by the persistent CI monitor, has an error message
\* exactly when it has no status code.
C21_MessageIffNoStatus ==
  \A i \in RowIds :
    (ping_results[i].error_message # Null)
      <=> (ping_results[i].status_code = Null)

\* =========================================================== ping_all_urls
\* One round of PingService.ping_all_urls: the targets go to a
\* ThreadPoolExecutor of max_workers threads, each of which runs ping_url,
\* that is the GET and then add_ping_result on a connection of its own.
\* SQLite lets one connection write at a time: the INSERT takes the write
\* lock of the database file and the commit releases it; an INSERT that
\* finds the lock taken waits for it, and raises sqlite3.OperationalError
\* ("database is locked") when the connection's timeout (sqlite3.connect
\* default, 5 seconds) runs out first.  The specification PoolSpec below uses
\* the variables ping_results, pc, call, raised and round; the threads are
\* the thread that runs the round, the workers of the pool and a request
\* thread that asks for get_statistics once the round has returned.

\* The largest pool the specification starts with.
MaxWorkers == 2

RoundThread == "main"
WorkerNames == <<"w1", "w2", "w3", "w4">>
\* An executor that starts a thread for every submitted task.
Workers_per_task(max_workers) == {WorkerNames[n] : n \in 1..Len(urls)}
\* The threads of a pool of max_workers workers.
Workers(max_workers) == {WorkerNames[n] : n \in 1..max_workers}
\* The workers of the pool in this behaviour.
PoolWorkers == {w \in DOMAIN pc : \E n \in DOMAIN WorkerNames : WorkerNames[n] = w}

\* What the GET of a probe of the round ends in.
PoolOutcomes ==
  {[kind |-> "response", status_code |-> 200],
   [kind |-> "exception", exc |-> "ReadTimeout"]}

\* The round before ping_all_urls: no target listed, no work queued, no
\* future done, nothing collected; number counts the rounds started and
\* max_workers is self.max_workers of the service.
NoPoolRound ==
  [listed |-> <<>>, todo |-> <<>>, futures |-> {}, collected |-> {},
   results |-> <<>>, number |-> 0, max_workers |-> 0]

PoolInit ==
  /\ state = STATE_STOPPED
  /\ pending_jobs = <<>>
  /\ jobstore = <<>>
  /\ instances = 0
  /\ pool_alive = TRUE
  /\ exiting = FALSE
  /\ \E max_workers \in 1..MaxWorkers :
       LET T == Workers(max_workers) \cup {RoundThread} \cup StoreClients
       IN  /\ pc = [t \in T |-> "idle"]
           /\ call = [t \in T |-> NoCall]
           /\ raised = [t \in T |-> NoError]
           /\ round = [t \in {RoundThread} |->
                         [NoPoolRound EXCEPT !.max_workers = max_workers]]
  /\ ping_results = <<>>
  /\ urls_table = urls
  /\ scheduler_instance = 0
  /\ schedulers = 0

\* The write lock of the database file is held by the connection of a
\* thread between its INSERT and its commit.
write_locked == \E t \in DOMAIN pc : pc[t] = "commit"

\* The future of the task for url_id is done, with a result or an exception.
future_done(url_id, how) ==
  round' = [round EXCEPT ![RoundThread].futures =
              @ \cup {[url_id |-> url_id, how |-> how]}]

\* A ping_all_urls that keeps the list of targets it read when the service
\* was built.
ping_all_urls_cached(m) ==
  /\ m = RoundThread
  /\ pc[m] = "idle"
  /\ round[m].number < MaxRounds
  /\ pc' = [pc EXCEPT ![m] = "collect"]
  /\ round' = [round EXCEPT ![m] =
                [NoPoolRound EXCEPT
                   !.listed = SubSeq(urls, 1, 1),
                   !.todo = <<urls[1].id>>,
                   !.number = round[m].number + 1,
                   !.max_workers = round[m].max_workers]]
  /\ UNCHANGED <<sched, call, raised, ping_results>>
  /\ UNCHANGED urls_table
  /\ UNCHANGED singleton

\* ping_all_urls, lines 140-154: the targets are read from the urls table
\* with one get_all_urls call and one task per listed target is submitted to
\* the executor.
ping_all_urls(m) ==
  /\ m = RoundThread
  /\ pc[m] = "idle"
  /\ round[m].number < MaxRounds
  /\ pc' = [pc EXCEPT ![m] = "collect"]
  /\ round' = [round EXCEPT ![m] =
                [NoPoolRound EXCEPT
                   !.listed = urls_table,
                   !.todo = [k \in 1..Len(urls_table) |-> urls_table[k].id],
                   !.number = round[m].number + 1,
                   !.max_workers = round[m].max_workers]]
  /\ UNCHANGED <<sched, call, raised, ping_results>>
  /\ UNCHANGED urls_table
  /\ UNCHANGED singleton

\* A worker of the executor takes the next task of the queue and runs
\* ping_url: the GET and its classification (lines 30-121).
worker_ping_url(w, o) ==
  /\ w \in PoolWorkers
  /\ pc[w] = "idle"
  /\ round[RoundThread].todo # <<>>
  /\ pc' = [pc EXCEPT ![w] = "insert"]
  /\ call' = [call EXCEPT ![w] =
                [name |-> "PingService.ping_url",
                 url_id |-> Head(round[RoundThread].todo),
                 outcome |-> o, result |-> PingService_classify(o)]]
  /\ round' = [round EXCEPT ![RoundThread].todo = Tail(@)]
  /\ UNCHANGED <<sched, raised, ping_results>>
  /\ UNCHANGED urls_table
  /\ UNCHANGED singleton

\* add_ping_result, lines 94-100: the INSERT takes the write lock.
worker_insert(w) ==
  /\ w \in PoolWorkers
  /\ pc[w] = "insert"
  /\ ~write_locked
  /\ pc' = [pc EXCEPT ![w] = "commit"]
  /\ UNCHANGED <<sched, call, raised, round, ping_results>>
  /\ UNCHANGED urls_table
  /\ UNCHANGED singleton

\* add_ping_result, lines 97-100: the INSERT finds the write lock taken and
\* the timeout of the connection runs out: sqlite3.OperationalError leaves
\* add_ping_result and ping_url (line 124 stands outside the try statement)
\* and becomes the exception of the task's future.
worker_insert_locked(w) ==
  /\ w \in PoolWorkers
  /\ pc[w] = "insert"
  /\ write_locked
  /\ future_done(call[w].url_id, "OperationalError")
  /\ Return(w)
  /\ UNCHANGED <<sched, raised, ping_results>>
  /\ UNCHANGED urls_table
  /\ UNCHANGED singleton

\* A ping_url that hands its result back and leaves the row for later.
worker_commit_deferred(w) ==
  /\ w \in PoolWorkers
  /\ pc[w] = "commit"
  /\ ping_results' = ping_results
  /\ future_done(call[w].url_id, "result")
  /\ Return(w)
  /\ UNCHANGED <<sched, raised>>
  /\ UNCHANGED urls_table
  /\ UNCHANGED singleton

\* A commit that never returns.
worker_commit_hangs(w) ==
  /\ w \in PoolWorkers
  /\ pc[w] = "commit"
  /\ UNCHANGED vars
\* add_ping_result, lines 102-103, and ping_url, line 131: the commit
\* writes the row and releases the lock; the result is the task's result.
worker_commit(w) ==
  /\ w \in PoolWorkers
  /\ pc[w] = "commit"
  /\ \E ts \in Times :
       ping_results' =
         Append(ping_results,
                new_row(call[w].url_id,
                        [status_code |-> call[w].result.status_code,
                         response_time |-> response_time,
                         error_message |-> call[w].result.error_message],
                        ts))
  /\ future_done(call[w].url_id, "result")
  /\ Return(w)
  /\ UNCHANGED <<sched, raised>>
  /\ UNCHANGED urls_table
  /\ UNCHANGED singleton

\* ping_all_urls, lines 157-163: as_completed yields a completed future; its
\* result is appended to results, its exception is printed and dropped.
ping_all_urls_collect(m) ==
  /\ m = RoundThread
  /\ pc[m] = "collect"
  /\ \E f \in round[m].futures :
       /\ f.url_id \notin round[m].collected
       /\ round' = [round EXCEPT
                      ![m].collected = @ \cup {f.url_id},
                      ![m].results =
                        IF f.how = "result" THEN Append(@, f.url_id) ELSE @]
  /\ UNCHANGED <<sched, pc, call, raised, ping_results>>
  /\ UNCHANGED urls_table
  /\ UNCHANGED singleton

\* ping_all_urls, lines 164-173: every future was yielded, the executor is
\* shut down and results is returned.
ping_all_urls_return(m) ==
  /\ m = RoundThread
  /\ pc[m] = "collect"
  /\ round[m].collected =
       {round[m].listed[k].id : k \in 1..Len(round[m].listed)}
  /\ pc' = [pc EXCEPT ![m] = "returned"]
  /\ UNCHANGED <<sched, call, raised, round, ping_results>>
  /\ UNCHANGED urls_table
  /\ UNCHANGED singleton

PoolNext ==
  \/ ping_all_urls(RoundThread)
  \/ \E w \in PoolWorkers, o \in PoolOutcomes : worker_ping_url(w, o)
  \/ \E w \in PoolWorkers : worker_insert(w)
  \/ \E w \in PoolWorkers : worker_insert_locked(w)
  \/ \E w \in PoolWorkers : worker_commit(w)
  \/ ping_all_urls_collect(RoundThread)
  \/ ping_all_urls_return(RoundThread)
  \/ /\ pc[RoundThread] = "returned"
     /\ \E c \in StoreClients, h \in HoursBack : call_get_statistics(c, h)
  \/ \E c \in StoreClients : store_call_return(c)

PoolSpec == PoolInit /\ [][PoolNext]_vars

\* ---------------------------------------------------- claims, ping_all_urls
\* The rows the table holds for one target.
RowsOf(url_id) == {i \in RowIds : ping_results[i].url_id = url_id}

\* C12: a round that dispatches one probe per target through a pool of
\* fewer workers than targets has persisted, when it returns, exactly as
\* many rows as targets, one per target, whatever the pool size and the
\* interleaving of the workers' add_ping_result calls.
C12_OneRowPerTarget ==
  (pc[RoundThread] = "returned" /\ Cardinality(PoolWorkers) < Len(urls))
    => /\ Len(ping_results) = Len(urls)
       /\ \A u \in UrlIds : Cardinality(RowsOf(u)) = 1

\* C23: during a round and after it, every probe whose outcome was handed
\* back to the round (its future holds a result, or the result was
\* collected) has its row in ping_results already.
C23_PersistedOnCompletion ==
  /\ \A f \in round[RoundThread].futures :
       f.how = "result" => RowsOf(f.url_id) # {}
  /\ \A n \in 1..Len(round[RoundThread].results) :
       RowsOf(round[RoundThread].results[n]) # {}

\* C23 witness: the round is under way, a probe has handed back its result
\* and has its row, and another target is still waiting in the queue.
C23_Witness ==
  /\ pc[RoundThread] = "collect"
  /\ round[RoundThread].todo # <<>>
  /\ \E f \in round[RoundThread].futures :
       f.how = "result" /\ RowsOf(f.url_id) # {}

\* C24 (as claimed): when ping_all_urls has returned, every worker has
\* finished and the result list holds exactly one outcome for every target
\* listed at the start of the round.
C24_ResultsAreAllOutcomes ==
  pc[RoundThread] = "returned"
    => /\ \A w \in PoolWorkers : pc[w] = "idle"
       /\ Len(round[RoundThread].results) = Len(urls)
       /\ \A u \in UrlIds :
            \E n \in 1..Len(round[RoundThread].results) :
              round[RoundThread].results[n] = u

\* C26 (as claimed): a write conflict during add_ping_result, the database
\* being locked by another writer, is retried inside the store and never
\* reaches the dispatcher: no probe's future ends in the write-conflict
\* error and no listed target is left without its row when the round returns.
C26_WriteConflictNotSurfaced ==
  /\ \A f \in round[RoundThread].futures : f.how # "OperationalError"
  /\ pc[RoundThread] = "returned"
       => \A k \in 1..Len(round[RoundThread].listed) :
            RowsOf(round[RoundThread].listed[k].id) # {}

\* C27 (as claimed): every round started by run_ping_round ends by logging
\* its summary, whatever fails in it, the listing of the targets included,
\* and after every target of the round was probed: the step that ends a
\* round is the summary step, taken with no target left to probe.
C27_RoundEndsWithSummary ==
  [][ \A t \in Threads :
        (InRound(t) /\ pc'[t] \notin {"rp_list", "rp_probe", "rp_except"})
          => (pc[t] = "rp_probe" /\ round[t].todo = {})
    ]_vars

\* The rows of the window of h hours.
InWindow(h) == {i \in RowIds : ping_results[i].timestamp >= Now - h}

\* C28 (as claimed): after one round over 3 targets in which 2 return HTTP
\* 200 and 1 times out, with no other row in the window, get_statistics(1)
\* returns total_pings = 3, successful_pings = 2, failed_pings = 1 and
\* success_rate = 66.7, the rate rounded to one decimal.
C28_TwoOfThree ==
  \A c \in StoreClients :
    ( /\ HasReturned(c, "get_statistics")
      /\ call[c].hours_back = 1
      /\ pc[RoundThread] = "returned"
      /\ Len(urls) = 3
      /\ InWindow(1) = {1, 2, 3}
      /\ Cardinality({i \in RowIds : ping_results[i].status_code = <<200>>}) = 2
      /\ Cardinality({i \in RowIds :
                        ping_results[i].error_message = <<"Request timeout">>}) = 1 )
    => /\ call[c].result.total_pings = 3
       /\ call[c].result.successful_pings = 2
       /\ call[c].result.failed_pings = 1
       /\ call[c].result.success_rate.num * 10
            = 667 * call[c].result.success_rate.den

\* C31: the ids of ping_results are assigned at insert and strictly
\* increase in insert order, the order in which the probes of a round wrote
\* their results: the n-th row written has id n, whatever its target.
C31_IdsInInsertOrder ==
  /\ \A i \in RowIds : ping_results[i].id = i
  /\ \A i, j \in RowIds : i < j => ping_results[i].id < ping_results[j].id

\* C31 witness: the round has returned and a probe of a later target of the
\* list wrote its result, and got its id, before one of an earlier target.
C31_Witness ==
  /\ pc[RoundThread] = "returned"
  /\ \E i, j \in RowIds :
       /\ ping_results[i].id < ping_results[j].id
       /\ ping_results[i].url_id > ping_results[j].url_id

\* The workers that are executing a probe: ping_url was entered and has not
\* returned.
Executing == {w \in PoolWorkers : pc[w] # "idle"}

\* C32: during a round the number of probes executing at the same time never
\* exceeds max_workers, also when the round has more targets than that.
C32_AtMostMaxWorkers ==
  Cardinality(Executing) <= round[RoundThread].max_workers

\* C32 witness: the pool is full, max_workers probes are executing, and
\* a target is still waiting in the queue.
C32_Witness ==
  /\ Cardinality(Executing) = round[RoundThread].max_workers
  /\ round[RoundThread].max_workers < Len(urls)
  /\ round[RoundThread].todo # <<>>

\* ================================================================= add_url
\* Database.add_url on a connection of its own: the INSERT takes the write
\* lock of the database file, and the lock stays with the connection until
\* its commit, also when the INSERT fails on the UNIQUE constraint of
\* urls.url and the except clause runs the UPDATE and the SELECT.  Other
\* connections read the committed table.  The callers are request threads;
\* they pass the url of a registered target ("a") or a new one ("d").

\* The position in the urls table of the row with this url, 0 if none.
url_index(url) ==
  IF \E k \in 1..Len(urls_table) : urls_table[k].url = url
    THEN CHOOSE k \in 1..Len(urls_table) : urls_table[k].url = url
    ELSE 0

\* add_url, lines 61-67 and 69-75: the INSERT, or on sqlite3.IntegrityError
\* the UPDATE and the SELECT of the id; url_id is cursor.lastrowid or the
\* selected id.
add_url_execute(c, url, group_name, country_code) ==
  /\ pc[c] = "idle"
  /\ ~write_locked
  /\ pc' = [pc EXCEPT ![c] = "commit"]
  /\ call' = [call EXCEPT ![c] =
                [name |-> "add_url", url |-> url, group_name |-> group_name,
                 country_code |-> country_code,
                 url_id |-> IF url_index(url) = 0
                              THEN Len(urls_table) + 1
                              ELSE urls_table[url_index(url)].id]]
  /\ UNCHANGED <<sched, raised, round, ping_results>>
  /\ UNCHANGED urls_table
  /\ UNCHANGED singleton

\* add_url, lines 64-65: the INSERT finds the write lock taken and the
\* timeout of the connection runs out; sqlite3.OperationalError is no
\* IntegrityError, so it leaves add_url.
add_url_locked(c, url, group_name, country_code) ==
  /\ pc[c] = "idle"
  /\ write_locked
  /\ Raise(c, "OperationalError")
  /\ call' = [call EXCEPT ![c] =
                [name |-> "add_url", url |-> url, group_name |-> group_name,
                 country_code |-> country_code, url_id |-> 0]]
  /\ UNCHANGED <<sched, round, ping_results>>
  /\ UNCHANGED urls_table
  /\ UNCHANGED singleton

\* An add_url written with INSERT OR REPLACE: the row of a registered url is
\* deleted and a new one, with a new id, takes its place.
add_url_commit_replace(c) ==
  /\ pc[c] = "commit"
  /\ call[c].name = "add_url"
  /\ urls_table' =
       LET row == [id |-> Len(urls_table) + 1, url |-> call[c].url,
                   group_name |-> call[c].group_name,
                   country_code |-> call[c].country_code]
       IN  IF url_index(call[c].url) = 0
             THEN Append(urls_table, row)
             ELSE [urls_table EXCEPT ![url_index(call[c].url)] = row]
  /\ pc' = [pc EXCEPT ![c] = "returned"]
  /\ UNCHANGED <<sched, call, raised, round, ping_results>>
  /\ UNCHANGED singleton

\* add_url, lines 67-68 and 76-77: the commit publishes the new row or the
\* new labels and releases the lock; url_id is returned.
add_url_commit(c) ==
  /\ pc[c] = "commit"
  /\ call[c].name = "add_url"
  /\ urls_table' =
       LET row == [id |-> call[c].url_id, url |-> call[c].url,
                   group_name |-> call[c].group_name,
                   country_code |-> call[c].country_code]
       IN  IF url_index(call[c].url) = 0
             THEN Append(urls_table, row)
             ELSE [urls_table EXCEPT ![url_index(call[c].url)] = row]
  /\ pc' = [pc EXCEPT ![c] = "returned"]
  /\ UNCHANGED <<sched, call, raised, round, ping_results>>
  /\ UNCHANGED singleton

RegistryNext ==
  \/ \E c \in Callers, url \in {"a", "d"}, g \in GroupArgs,
        cc \in {CountryCodes[n] : n \in 1..Len(CountryCodes)} :
       \/ add_url_execute(c, url, g, cc)
       \/ add_url_locked(c, url, g, cc)
  \/ \E c \in Callers : add_url_commit(c)
  \/ \E c \in Callers : store_call_return(c)
  \/ \E c \in Callers : propagate(c)

RegistrySpec == Init /\ [][RegistryNext]_vars

\* ---------------------------------------------------------- claims, add_url
\* C22 (as claimed): add_url is an idempotent upsert.  Every call, also one
\* made while another call is executing, returns an id; a row of the urls
\* table keeps its id and its url for ever, so two calls with the same url
\* return the same id; when a call commits, the row of its url holds the
\* group and country of that call and the id it returns; and the table has
\* one row per distinct url.
C22_IdempotentUpsert ==
  [][ /\ \A k \in 1..Len(urls_table) :
           /\ k <= Len(urls_table')
           /\ urls_table'[k].id = urls_table[k].id
           /\ urls_table'[k].url = urls_table[k].url
      /\ \A m, n \in 1..Len(urls_table') :
           urls_table'[m].url = urls_table'[n].url => m = n
      /\ \A c \in Callers :
           /\ (pc[c] = "commit" /\ pc'[c] = "returned")
                => \E k \in 1..Len(urls_table') :
                     urls_table'[k] =
                       [id |-> call[c].url_id, url |-> call[c].url,
                        group_name |-> call[c].group_name,
                        country_code |-> call[c].country_code]
           /\ call'[c].name = "add_url" => pc'[c] # "raised"
    ]_vars

\* ====================================================== rounds and add_url
\* Rounds of ping_all_urls, one after the other, with a pool of one worker,
\* while a request thread registers a new target ("d") or gives a
\* registered one ("a") another group with add_url.  The urls table starts
\* with the one target "a".
Registrar == "c1"

RoundInit ==
  /\ state = STATE_STOPPED
  /\ pending_jobs = <<>>
  /\ jobstore = <<>>
  /\ instances = 0
  /\ pool_alive = TRUE
  /\ exiting = FALSE
  /\ pc = [t \in Workers(1) \cup {RoundThread, Registrar} |-> "idle"]
  /\ call = [t \in Workers(1) \cup {RoundThread, Registrar} |-> NoCall]
  /\ raised = [t \in Workers(1) \cup {RoundThread, Registrar} |-> NoError]
  /\ round = [t \in {RoundThread} |-> [NoPoolRound EXCEPT !.max_workers = 1]]
  /\ ping_results = <<>>
  /\ urls_table = SubSeq(urls, 1, 1)
  /\ scheduler_instance = 0
  /\ schedulers = 0

RoundNext ==
  \/ ping_all_urls(RoundThread)
  \/ \E w \in PoolWorkers :
       worker_ping_url(w, [kind |-> "response", status_code |-> 200])
  \/ \E w \in PoolWorkers : worker_insert(w)
  \/ \E w \in PoolWorkers : worker_insert_locked(w)
  \/ \E w \in PoolWorkers : worker_commit(w)
  \/ ping_all_urls_collect(RoundThread)
  \/ ping_all_urls_return(RoundThread)
  \/ \E url \in {"a", "d"} :
       \/ add_url_execute(Registrar, url, "g2", Null)
       \/ add_url_locked(Registrar, url, "g2", Null)
  \/ add_url_commit(Registrar)
  \/ \E c \in {RoundThread, Registrar} : store_call_return(c)
  \/ propagate(Registrar)

RoundSpec == RoundInit /\ [][RoundNext]_vars

\* ----------------------------------------------- claims, rounds and add_url
\* The ids of the rows of a list of targets.
IdsOf(rows) == {rows[k].id : k \in 1..Len(rows)}

C30_AppendOnly ==
  [][ /\ Len(ping_results') >= Len(ping_results)
      /\ \A i \in RowIds : ping_results'[i] = ping_results[i]
      /\ Len(urls_table') >= Len(urls_table)
      /\ \A k \in 1..Len(urls_table) :
           /\ urls_table'[k].id = urls_table[k].id
           /\ urls_table'[k].url = urls_table[k].url
    ]_vars

\* C30 witness: two rounds have written rows, a new target was registered
\* and the registered one was given another group; it still has the id its
\* rows refer to.
C30_Witness ==
  /\ round[RoundThread].number = 2
  /\ Len(ping_results) >= 3
  /\ Len(urls_table) = 2
  /\ urls_table[1].id = urls[1].id
  /\ urls_table[1].group_name # urls[1].group_name
  /\ RowsOf(urls_table[1].id) # {}

\* ================================================ get_statistics, statement
\* by statement.  get_statistics runs three SELECT COUNT(*) statements on
\* one connection (lines 186-206).  The sqlite3 module opens no transaction
\* for a SELECT, so each statement reads the table as committed when it
\* runs, and each evaluates datetime('now') for itself: a row committed by
\* another thread, or the clock moving on, lies between two statements.
\* Thread c1 asks, thread c2 writes rows with add_ping_result.

\* The next of the three statements: COUNT of the rows of the window, of the
\* successful ones among them, of the failed ones among them; now is the
\* clock when the statement runs.
get_statistics_select(c, h, now) ==
  /\ \/ pc[c] = "idle"
     \/ /\ pc[c] = "gs_select"
        /\ Len(call[c].counts) < 3
        /\ h = call[c].hours_back
        /\ now >= call[c].now
  /\ LET k == IF pc[c] = "idle" THEN 1 ELSE Len(call[c].counts) + 1
         W == {i \in RowIds : ping_results[i].timestamp >= now - h}
         n == IF k = 1 THEN Cardinality(W)
              ELSE IF k = 2
                THEN Cardinality({i \in W :
                                    sql_success(ping_results[i].status_code)})
                ELSE Cardinality({i \in W :
                                    sql_failed(ping_results[i].status_code)})
     IN  call' = [call EXCEPT ![c] =
                    [name |-> "get_statistics", hours_back |-> h, now |-> now,
                     counts |-> IF k = 1 THEN <<n>>
                                ELSE Append(call[c].counts, n)]]
  /\ pc' = [pc EXCEPT ![c] = "gs_select"]
  /\ UNCHANGED <<sched, raised, round, ping_results>>
  /\ UNCHANGED urls_table
  /\ UNCHANGED singleton

\* get_statistics, lines 208-216: the dictionary built from the three counts.
get_statistics_return(c) ==
  /\ pc[c] = "gs_select"
  /\ Len(call[c].counts) = 3
  /\ Returned(c, [name |-> "get_statistics",
                  hours_back |-> call[c].hours_back,
                  result |->
                    [total_urls |-> Len(urls_table),
                     total_pings |-> call[c].counts[1],
                     successful_pings |-> call[c].counts[2],
                     failed_pings |-> call[c].counts[3],
                     success_rate |->
                       success_rate(call[c].counts[2], call[c].counts[1])]])
  /\ UNCHANGED <<sched, round, ping_results>>
  /\ UNCHANGED urls_table
  /\ UNCHANGED singleton

StatsNext ==
  \/ \E h \in HoursBack, now \in {Now, Now + 1} :
       get_statistics_select("c1", h, now)
  \/ get_statistics_return("c1")
  \/ \E p \in ProbeArgs, ts \in Times : add_ping_result("c2", 1, p, ts)
  \/ \E c \in Callers : store_call_return(c)

StatsSpec == Init /\ [][StatsNext]_vars

\* ---------------------------------------------------- claims, get_statistics
\* C29 (as claimed): one get_statistics result is consistent in itself,
\* successful_pings + failed_pings = total_pings and 0 <= success_rate <=
\* 100, also when add_ping_result calls of other threads and the passage of
\* time fall between the steps of the query.
C29_StatisticsConsistent ==
  \A c \in Callers :
    (HasReturned(c, "get_statistics") /\ "result" \in DOMAIN call[c]) =>
      LET r == call[c].result
      IN  /\ r.successful_pings + r.failed_pings = r.total_pings
          /\ 0 <= r.success_rate.num
          /\ r.success_rate.num <= 100 * r.success_rate.den


\* ========================== get_ping_summary and the CI monitor's exit code
\* The longest list of outcomes summarised.
MaxResults == 3

\* The outcomes get_ping_summary reads: success and response_time, the
\* milliseconds ping_url measured (0 when the clock did not advance).
SummaryOutcomes == [success : BOOLEAN, response_time : {0, 20, 40}]
SummaryInputs == UNION {[1..n -> SummaryOutcomes] : n \in 0..MaxResults}

\* PingService.get_ping_summary, lines 193-227.  success_rate and
\* avg_response_time are round(.., 1), in tenths; `r['success'] and
\* r['response_time']` drops the successful outcomes whose time is 0.
get_ping_summary(results) ==
  IF results = <<>>
    THEN [total_urls |-> 0, successful |-> 0, failed |-> 0,
          success_rate |-> 0, avg_response_time |-> 0]
    ELSE LET total_urls == Len(results)
             successful ==
               Cardinality({i \in DOMAIN results : results[i].success})
             successful_times ==
               {i \in DOMAIN results : /\ results[i].success
                                       /\ results[i].response_time # 0}
         IN  [total_urls |-> total_urls,
              successful |-> successful,
              failed |-> total_urls - successful,
              success_rate |-> round1(percent(successful, total_urls)),
              avg_response_time |->
                IF successful_times # {}
                  THEN round1([num |-> Sum([i \in successful_times |->
                                             results[i].response_time],
                                           successful_times),
                               den |-> Cardinality(successful_times)])
                  ELSE 0]

call_get_ping_summary(c, results) ==
  /\ pc[c] = "idle"
  /\ Returned(c, [name |-> "get_ping_summary", results |-> results,
                  result |-> get_ping_summary(results)])
  /\ UNCHANGED <<sched, round, ping_results>>
  /\ UNCHANGED urls_table
  /\ UNCHANGED singleton

\* What the probes of one run of the CI monitor end in, in the order of
\* their completion.
MonitorOutcomes ==
  {[kind |-> "response", status_code |-> s] :
     s \in {200, 302, 399, 400, 499, 500}}
    \cup {[kind |-> "exception", exc |-> "ReadTimeout"]}
MonitorRuns == UNION {[1..n -> MonitorOutcomes] : n \in 0..MaxResults}

\* A check that takes only the server errors for critical.
critical_failures_5xx(failures) ==
  SelectSeq(failures, LAMBDA r : /\ r.status_code # Null
                                 /\ r.status_code[1] >= 500)
\* main, lines 377-378: the failures that are critical.
critical_failures(failures) ==
  SelectSeq(failures, LAMBDA r : \/ r.status_code = Null
                                 \/ r.status_code[1] = 0
                                 \/ r.status_code[1] < 400
                                 \/ r.status_code[1] >= 500)

\* main of ci_monitor_persistent.py, lines 347-388, with the run of
\* monitor_urls (lines 170-190): every outcome is a result, the unsuccessful
\* ones are the failures; no target loaded returns before the run; exit(1)
\* when a failure is critical.
PersistentCIMonitor_main(c, outcomes) ==
  /\ pc[c] = "idle"
  /\ LET results == [i \in 1..Len(outcomes) |->
                       PersistentCIMonitor_classify(outcomes[i])]
         failures == SelectSeq(results, LAMBDA r : ~r.success)
     IN  Returned(c, [name |-> "main", outcomes |-> outcomes,
                      failures |-> failures,
                      exit_code |->
                        IF outcomes = <<>> THEN 0
                        ELSE IF critical_failures(failures) # <<>> THEN 1
                        ELSE 0])
  /\ UNCHANGED <<sched, round, ping_results>>
  /\ UNCHANGED urls_table
  /\ UNCHANGED singleton

ReportNext ==
  \/ \E c \in StoreClients, results \in SummaryInputs :
       call_get_ping_summary(c, results)
  \/ \E c \in StoreClients, outcomes \in MonitorRuns :
       PersistentCIMonitor_main(c, outcomes)
  \/ \E c \in StoreClients : store_call_return(c)

ReportSpec == Init /\ [][ReportNext]_vars

\* The successful outcomes of a list.
SuccessfulOf(results) == {i \in DOMAIN results : results[i].success}

\* C33 (as claimed): get_ping_summary(results) returns total = the number of
\* outcomes, successful = the number with success true, failed = total -
\* successful, success_rate = successful / total * 100 and the average
\* response time of the successful outcomes; for the empty list every field
\* is 0, and with no successful outcome the average is 0.
C33_SummaryAsClaimed ==
  \A c \in StoreClients :
    HasReturned(c, "get_ping_summary") =>
      LET results == call[c].results
          r == call[c].result
          ok == SuccessfulOf(results)
      IN  /\ r.total_urls = Len(results)
          /\ r.successful = Cardinality(ok)
          /\ r.failed = r.total_urls - r.successful
          /\ results = <<>> => /\ r.success_rate = 0
                               /\ r.avg_response_time = 0
          /\ results # <<>> =>
               r.success_rate * Len(results) = 1000 * Cardinality(ok)
          /\ ok = {} => r.avg_response_time = 0
          /\ ok # {} =>
               r.avg_response_time =
                 round1([num |-> Sum([i \in ok |-> results[i].response_time],
                                     ok),
                         den |-> Cardinality(ok)])

\* The part of C33 on the counts, the empty list and the list without a
\* success, which the code meets.
C33_CountsAndZeros ==
  \A c \in StoreClients :
    HasReturned(c, "get_ping_summary") =>
      LET results == call[c].results
          r == call[c].result
      IN  /\ r.total_urls = Len(results)
          /\ r.successful = Cardinality(SuccessfulOf(results))
          /\ r.failed = r.total_urls - r.successful
          /\ results = <<>> => /\ r.success_rate = 0
                               /\ r.avg_response_time = 0
          /\ SuccessfulOf(results) = {} => r.avg_response_time = 0

\* The part of C33 on the average alone: it is the rounded average of all
\* the successful outcomes.
C33_AverageOverSuccessful ==
  \A c \in StoreClients :
    HasReturned(c, "get_ping_summary") =>
      LET results == call[c].results
          ok == SuccessfulOf(results)
      IN  ok # {} =>
            call[c].result.avg_response_time =
              round1([num |-> Sum([i \in ok |-> results[i].response_time], ok),
                      den |-> Cardinality(ok)])

\* The part of C33 on the rate alone: it is exactly successful / total * 100.
C33_ExactRate ==
  \A c \in StoreClients :
    HasReturned(c, "get_ping_summary") =>
      (call[c].results # <<>> =>
         call[c].result.success_rate * Len(call[c].results)
           = 1000 * Cardinality(SuccessfulOf(call[c].results)))

get_scheduler_test(c) ==
  /\ pc[c] = "idle"
  /\ Entered(c, [NoCall EXCEPT !.name = "get_scheduler"])
  /\ pc' = [pc EXCEPT ![c] = IF scheduler_instance = 0 THEN "gs_create"
                             ELSE "gs_return"]
  /\ UNCHANGED <<sched, raised, round, ping_results, urls_table, singleton>>

\* get_scheduler, lines 173-175: the thread found None, constructs a
\* MonitoringScheduler and assigns it to the global.
get_scheduler_create(c) ==
  /\ pc[c] = "gs_create"
  /\ schedulers' = schedulers + 1
  /\ scheduler_instance' = schedulers + 1
  /\ pc' = [pc EXCEPT ![c] = "gs_return"]
  /\ UNCHANGED <<sched, call, raised, round, ping_results, urls_table>>

\* get_scheduler, line 177: return _scheduler_instance, read again.
get_scheduler_return(c) ==
  /\ pc[c] = "gs_return"
  /\ pc' = [pc EXCEPT ![c] = "returned"]
  /\ call' = [call EXCEPT ![c] =
                [name |-> "get_scheduler", result |-> scheduler_instance]]
  /\ UNCHANGED <<sched, raised, round, ping_results, urls_table, singleton>>

SingletonNext ==
  \/ \E c \in Threads : get_scheduler_test(c)
  \/ \E c \in Threads : get_scheduler_create(c)
  \/ \E c \in Threads : get_scheduler_return(c)
  \/ \E c \in Threads : store_call_return(c)

SingletonSpec == Init /\ [][SingletonNext]_vars

\* C37 (as claimed): get_scheduler returns the same MonitoringScheduler
\* instance on every call and at most one instance is ever created, also
\* when the first calls are made concurrently from several threads.
C37_OneSchedulerInstance ==
  /\ schedulers <= 1
  /\ \A c \in Threads :
       HasReturned(c, "get_scheduler") => call[c].result = 1

\* After the first call has returned, every call returns the instance the
\* global holds and creates none.
C37_SequentialCalls ==
  [][\A c \in Threads :
       (pc[c] = "idle" /\ pc'[c] # "idle" /\ scheduler_instance # 0)
         => pc'[c] = "gs_return" /\ UNCHANGED singleton]_vars


\* ================================================= termination of the rounds
\* The steps of the round thread t executes.  Each of them ends: the listing
\* is one query, a probe returns by its timeout (timeout=self.timeout in
\* session.get) and its write returns, the summary is computed.
RoundStep(t) ==
  \/ run_ping_round_list(t)
  \/ run_ping_round_error(t)
  \/ run_ping_round_probe(t)
  \/ run_ping_round_summary(t)

\* The scheduler with threads that keep running: a thread inside a round
\* takes its next step, and start_monitoring goes on to scheduler.start().
FairSpec ==
  /\ Spec
  /\ \A t \in Threads : WF_vars(RoundStep(t))
  /\ \A c \in Callers : WF_vars(start_monitoring_start(c))

\* The steps of pool worker w, and of the thread that collects the futures.
WorkerStep(w) ==
  \/ \E o \in PoolOutcomes : worker_ping_url(w, o)
  \/ worker_insert(w)
  \/ worker_insert_locked(w)
  \/ worker_commit(w)
CollectStep(m) == ping_all_urls_collect(m) \/ ping_all_urls_return(m)

\* ping_all_urls with threads that keep running: the GET of a probe ends by
\* its timeout, an INSERT gets the lock or gives up when the connection's
\* timeout runs out, a commit returns.
FairPoolSpec ==
  /\ PoolSpec
  /\ \A n \in DOMAIN WorkerNames : WF_vars(WorkerStep(WorkerNames[n]))
  /\ WF_vars(CollectStep(RoundThread))

\* C40: every round terminates: with probes that return by their timeout
\* and store writes that return, every task submitted is run by a worker to
\* its end, every future is collected and ping_all_urls returns, after all
\* workers have finished; the round is then no longer in flight.
C40_EveryRoundTerminates ==
  (pc[RoundThread] = "collect")
    ~> (/\ pc[RoundThread] = "returned"
        /\ \A w \in PoolWorkers : pc[w] = "idle")

\* C40 witness: a round is in flight with a target still in the queue, one
\* worker holding the write lock and another waiting for it.
C40_Witness ==
  /\ pc[RoundThread] = "collect"
  /\ round[RoundThread].todo # <<>>
  /\ \E v, w \in PoolWorkers : pc[v] = "commit" /\ pc[w] = "insert"

\* A round begins in this step.
RoundStarts == \E t \in Threads : ~InRound(t) /\ InRound(t)'

\* In the scheduler: a thread that is executing a round leaves it, so
\* run_ping_round and run_manual_ping return, start_monitoring returns (or
\* raises, on a scheduler that is not Stopped), and the number of rounds in
\* flight goes back to zero, again and again unless new rounds are started
\* for ever.
C40_SchedulerRoundsTerminate ==
  /\ \A t \in Threads : InRound(t) ~> (pc[t] = "idle")
  /\ \A c \in Callers : (pc[c] = "sm_start") ~> (pc[c] \in {"idle", "raised"})
  /\ []<>(RoundsInFlight = 0) \/ []<><<RoundStarts>>_vars
====
